---- MODULE Spec2Model ----
(***************************************************************************)
(* A model of the options-publisher repository:                            *)
(*   - the POST handler of /api/sendMessage (app/api/sendMessage/route.js) *)
(*   - the tabbed Telegram page (app/telegram/page.js)                     *)
(*   - the earlier single-form draft of that page (unnamed/part_000).      *)
(* Text is modelled as TLA+ strings where the code only concatenates it    *)
(* and as tuples of one-character strings where the code parses it (the    *)
(* e-mail whitelist, the values of the number inputs).                     *)
(***************************************************************************)
EXTENDS Integers, Sequences, FiniteSets, TLC

VARIABLES
    \* ---- route.js ----
    srvEnv,        \* process.env.AUTHORIZED_USERS
    srvPc,         \* position of the running POST handler
    request,       \* what the running handler was given
    response,      \* the Response the handler returned last
    telegramLog,   \* texts sent to api.telegram.org, in order
    posts,         \* number of POSTs handled so far
    \* ---- telegram/page.js ----
    clientEnv,     \* process.env.NEXT_PUBLIC_AUTHORIZED_USERS
    today,         \* the day new Date() gives, as a day of the year
    status,        \* useSession().status
    session,       \* useSession().data
    authorized,    \* TelegramPage state
    activeTab,     \* TelegramPage state
    fresh,         \* state of the mounted FreshTradeSection
    squareOff,     \* state of the mounted SquareOffSection
    expiryTrades,  \* state of the mounted ExpiryTradesSection
    ignoreAlert,   \* state of the mounted IgnoreAlertSection
    inflight,      \* fetches to /api/sendMessage not yet settled
    toast,         \* the toast the latest handler raised ("" when none)
    posted,        \* the body the latest handler POSTed, if it did
    beforeConfirm, \* the inputs as they stood when confirm was last pressed
    \* ---- unnamed/part_000, the single-form draft of the page ----
    draft,         \* state of the draft TelegramPage
    sameSidePreviewed \* the preview shown was asked for with equal BOTH sides

srvVars == <<srvEnv, srvPc, request, response, telegramLog, posts>>

sectionVars == <<fresh, squareOff, expiryTrades, ignoreAlert>>

pageVars == <<clientEnv, today, status, session, authorized, activeTab,
              fresh, squareOff, expiryTrades, ignoreAlert,
              inflight, toast, posted, beforeConfirm>>

draftVars == <<draft, sameSidePreviewed>>

\* the state of the tabbed page that the draft page does not have
tabbedVars == <<authorized, activeTab, sectionVars, beforeConfirm>>

vars == <<srvVars, pageVars, draftVars>>

-----------------------------------------------------------------------------
(* Strings that the code takes apart                                       *)

\* String.prototype.trim, on a tuple of characters
RECURSIVE TrimLeft(_)
TrimLeft(s) ==
    IF s # <<>> /\ Head(s) = " " THEN TrimLeft(Tail(s)) ELSE s

RECURSIVE TrimRight(_)
TrimRight(s) ==
    IF s # <<>> /\ s[Len(s)] = " " THEN TrimRight(SubSeq(s, 1, Len(s) - 1)) ELSE s

Trim(s) == TrimRight(TrimLeft(s))

\* String.prototype.split(","): "" splits into [""]
RECURSIVE Split(_)
Split(s) ==
    IF \E i \in 1..Len(s) : s[i] = ","
    THEN LET i == CHOOSE k \in 1..Len(s) :
                      s[k] = "," /\ \A m \in 1..(k - 1) : s[m] # ","
         IN  <<SubSeq(s, 1, i - 1)>> \o Split(SubSeq(s, i + 1, Len(s)))
    ELSE <<s>>

MapTrim(list) == [i \in 1..Len(list) |-> Trim(list[i])]

\* Array.prototype.includes
Includes(list, x) == \E i \in 1..Len(list) : list[i] = x

\* the characters of a tuple as one string
RECURSIVE Str(_)
Str(s) == IF s = <<>> THEN "" ELSE Head(s) \o Str(Tail(s))

-----------------------------------------------------------------------------
(* app/api/sendMessage/route.js                                            *)

MaxPosts == 2

\* an environment variable: unset, or its raw text
Unset == [defined |-> FALSE, raw |-> <<>>]
EnvText(s) == [defined |-> TRUE, raw |-> s]

EnvChoices ==
    { Unset,
      EnvText(<<>>),
      EnvText(<<"a">>),
      EnvText(<<"a", ",", " ", "b">>),
      EnvText(<<" ", "b", " ", ",", ",", "c">>) }

\* what getServerSession / useSession can give
NoSession == [present |-> FALSE, hasEmail |-> FALSE, email |-> <<>>]
SessionNoEmail == [present |-> TRUE, hasEmail |-> FALSE, email |-> <<>>]
SessionOf(e) == [present |-> TRUE, hasEmail |-> TRUE, email |-> e]

EmailChoices == { <<>>, <<"a">>, <<"b">>, <<" ", "b">>, <<"c">> }

SessionChoices == {NoSession, SessionNoEmail} \cup {SessionOf(e) : e \in EmailChoices}

\* session.user?.email is truthy
HasEmail(sess) == sess.present /\ sess.hasEmail /\ sess.email # <<>>

\* request bodies: req.json() throws, or gives an object whose message is
\* missing, empty or a text
BodyChoices ==
    { [json |-> FALSE, hasMessage |-> FALSE, message |-> ""],
      [json |-> TRUE, hasMessage |-> FALSE, message |-> ""],
      [json |-> TRUE, hasMessage |-> TRUE, message |-> ""],
      [json |-> TRUE, hasMessage |-> TRUE, message |-> "Kindly ignore the alert"] }

NoResponse == [status |-> 0, success |-> FALSE, error |-> ""]
Json(code, success, error) == [status |-> code, success |-> success, error |-> error]

IdleRequest == [sessionThrows |-> FALSE, session |-> NoSession,
                body |-> [json |-> FALSE, hasMessage |-> FALSE, message |-> ""],
                called |-> FALSE, res |-> ""]

\* line 14: process.env.AUTHORIZED_USERS?.split(",").map((e) => e.trim()) || []
ServerAuthorized(env) ==
    IF env.defined THEN MapTrim(Split(env.raw)) ELSE <<>>

\* variant: a gate that asks for a session with an email and reads no whitelist
GateNoWhitelist(env, sess) ==
    IF ~HasEmail(sess) THEN 401 ELSE 0

\* lines 9-19: the gate, as the status it answers with (0: the caller passes)
Gate(env, sess) ==
    IF ~HasEmail(sess) THEN 401
    ELSE IF ~Includes(ServerAuthorized(env), sess.email) THEN 403
    ELSE 0

\* lines 4-38: the handler up to its first return or to the fetch it awaits
POST(sessionThrows, sess, body) ==
    /\ srvPc = "idle"
    /\ posts < MaxPosts
    /\ posts' = posts + 1
    /\ LET req == [sessionThrows |-> sessionThrows, session |-> sess,
                   body |-> body, called |-> FALSE, res |-> ""]
           gate == Gate(srvEnv, sess)
           answer(r) == /\ response' = r
                        /\ request' = req
                        /\ srvPc' = "done"
                        /\ UNCHANGED telegramLog
       IN  IF sessionThrows
           THEN answer(Json(500, FALSE, "getServerSession failed"))
           ELSE IF gate = 401
           THEN answer(Json(401, FALSE, "Unauthorized - not logged in"))
           ELSE IF gate = 403
           THEN answer(Json(403, FALSE, "Access denied"))
           ELSE IF ~body.json
           THEN answer(Json(500, FALSE, "Unexpected end of JSON input"))
           ELSE IF ~body.hasMessage \/ body.message = ""
           THEN answer(Json(400, FALSE, "Message cannot be empty"))
           ELSE /\ telegramLog' = Append(telegramLog, body.message)
                /\ request' = [req EXCEPT !.called = TRUE]
                /\ response' = NoResponse
                /\ srvPc' = "telegram"
    /\ UNCHANGED srvEnv
    /\ UNCHANGED <<pageVars, draftVars>>

\* what the awaited fetch to Telegram can do; the handler holds it as res
TelegramOutcomes == {"ok", "notOkDescribed", "notOk", "throws"}

\* variant: a handler that never looks at res.ok
TelegramAnswersUnchecked(outcome) ==
    /\ srvPc = "telegram"
    /\ response' =
          CASE outcome = "throws" -> Json(500, FALSE, "fetch failed")
            [] OTHER -> Json(200, TRUE, "")
    /\ request' = [request EXCEPT !.res = outcome]
    /\ srvPc' = "done"
    /\ UNCHANGED <<srvEnv, telegramLog, posts>>
    /\ UNCHANGED <<pageVars, draftVars>>

\* lines 40-47: the handler after the fetch
TelegramAnswers(outcome) ==
    /\ srvPc = "telegram"
    /\ response' =
          CASE outcome = "ok" -> Json(200, TRUE, "")
            [] outcome = "notOkDescribed" -> Json(500, FALSE, "Bad Request: chat not found")
            [] outcome = "notOk" -> Json(500, FALSE, "Failed to send message")
            [] outcome = "throws" -> Json(500, FALSE, "fetch failed")
    /\ request' = [request EXCEPT !.res = outcome]
    /\ srvPc' = "done"
    /\ UNCHANGED <<srvEnv, telegramLog, posts>>
    /\ UNCHANGED <<pageVars, draftVars>>

\* the Response leaves; the route is ready for the next POST
Respond ==
    /\ srvPc = "done"
    /\ srvPc' = "idle"
    /\ UNCHANGED <<srvEnv, request, response, telegramLog, posts>>
    /\ UNCHANGED <<pageVars, draftVars>>

ServerInit ==
    /\ srvEnv \in EnvChoices
    /\ srvPc = "idle"
    /\ request = IdleRequest
    /\ response = NoResponse
    /\ telegramLog = <<>>
    /\ posts = 0

ServerNext ==
    \/ \E t \in BOOLEAN, s \in SessionChoices, b \in BodyChoices : POST(t, s, b)
    \/ \E o \in TelegramOutcomes : TelegramAnswers(o)
    \/ Respond


-----------------------------------------------------------------------------
(* JavaScript numbers, as far as the page uses them.  A finite number is   *)
(* held in hundredths; the number inputs of the model carry at most two    *)
(* decimals, for which the arithmetic of the page is exact.                *)

DigitChars == {"0", "1", "2", "3", "4", "5", "6", "7", "8", "9"}

DigitValue(c) ==
    CASE c = "0" -> 0 [] c = "1" -> 1 [] c = "2" -> 2 [] c = "3" -> 3
      [] c = "4" -> 4 [] c = "5" -> 5 [] c = "6" -> 6 [] c = "7" -> 7
      [] c = "8" -> 8 [] c = "9" -> 9

IsDigits(s) == \A i \in 1..Len(s) : s[i] \in DigitChars

RECURSIVE DigitsValue(_)
DigitsValue(s) ==
    IF s = <<>> THEN 0
    ELSE 10 * DigitsValue(SubSeq(s, 1, Len(s) - 1)) + DigitValue(s[Len(s)])

RECURSIVE Pow10(_)
Pow10(n) == IF n <= 0 THEN 1 ELSE 10 * Pow10(n - 1)

\* the index of the first c in s, 0 when there is none
IndexOf(s, c) ==
    IF \E i \in 1..Len(s) : s[i] = c
    THEN CHOOSE i \in 1..Len(s) : s[i] = c /\ \A k \in 1..(i - 1) : s[k] # c
    ELSE 0

\* A number is held as h hundredths; tiny is the sign of a part under 1e-17
\* that comes on top of h = 0 (0 when there is none).
NaN == [kind |-> "NaN", h |-> 0, tiny |-> 0]
Infinity == [kind |-> "Infinity", h |-> 0, tiny |-> 0]
Finite(h) == [kind |-> "finite", h |-> h, tiny |-> 0]
Tiny(neg) == [kind |-> "finite", h |-> 0, tiny |-> IF neg THEN -1 ELSE 1]

\* Number(string): StringToNumber on the decimal literals a number input holds.
\* A literal under 1e-324 rounds to 0, one under 1e-17 is Tiny; of any other
\* literal the digits after the second decimal are carried only when they are
\* zeros.
Number(val) ==
    LET unsigned(t) == IF t # <<>> /\ Head(t) \in {"-", "+"} THEN Tail(t) ELSE t
        negative(t) == t # <<>> /\ Head(t) = "-"
        scaled(neg, m, wholeLen, fracLen, x) ==
            IF m = 0 THEN Finite(0)
            ELSE IF wholeLen + x > 309 THEN Infinity
            ELSE IF wholeLen + x < -324 THEN Finite(0)
            ELSE IF wholeLen + x <= -17 THEN Tiny(neg)
            ELSE IF x - fracLen + 2 >= 0
            THEN Finite((IF neg THEN -1 ELSE 1) * m * Pow10(x - fracLen + 2))
            ELSE Finite((IF neg THEN -1 ELSE 1) * (m \div Pow10(fracLen - x - 2)))
        exponent(neg, whole, frac, expNeg, expDigits) ==
            scaled(neg, DigitsValue(whole \o frac), Len(whole), Len(frac),
                   IF expNeg THEN 0 - DigitsValue(expDigits) ELSE DigitsValue(expDigits))
        parts(neg, whole, frac, hasExp, expo) ==
            IF /\ IsDigits(whole) /\ IsDigits(frac)
               /\ Len(whole) + Len(frac) > 0
               /\ hasExp => (unsigned(expo) # <<>> /\ IsDigits(unsigned(expo)))
            THEN exponent(neg, whole, frac, negative(expo), unsigned(expo))
            ELSE NaN
        mantissa(neg, mant, dot, hasExp, expo) ==
            parts(neg, IF dot = 0 THEN mant ELSE SubSeq(mant, 1, dot - 1),
                  IF dot = 0 THEN <<>> ELSE SubSeq(mant, dot + 1, Len(mant)),
                  hasExp, expo)
        split(neg, mant, hasExp, expo) ==
            mantissa(neg, mant, IndexOf(mant, "."), hasExp, expo)
        literal(neg, u, e) ==
            split(neg, IF e = 0 THEN u ELSE SubSeq(u, 1, e - 1), e # 0,
                  IF e = 0 THEN <<>> ELSE SubSeq(u, e + 1, Len(u)))
        trimmed(t) ==
            IF t = <<>> THEN Finite(0)
            ELSE literal(negative(t), unsigned(t), IndexOf(unsigned(t), "e"))
    IN  trimmed(Trim(val))

isFinite(n) == n.kind = "finite"

Abs(h) == IF h < 0 THEN 0 - h ELSE h

Pad2(n) == IF n < 10 THEN "0" \o ToString(n) ELSE ToString(n)

\* String(n) for a number of h hundredths
NumberToString(h) ==
    LET a == Abs(h)
        sign == IF h < 0 THEN "-" ELSE ""
        cents == a % 100
    IN  IF cents = 0 THEN sign \o ToString(a \div 100)
        ELSE IF cents % 10 = 0
        THEN sign \o ToString(a \div 100) \o "." \o ToString(cents \div 10)
        ELSE sign \o ToString(a \div 100) \o "." \o Pad2(cents)

\* n.toFixed(2)
ToFixed2(h) ==
    LET a == Abs(h)
    IN  (IF h < 0 THEN "-" ELSE "") \o ToString(a \div 100) \o "." \o Pad2(a % 100)

\* Number.isInteger(n)
IsInteger(h) == h % 100 = 0

-----------------------------------------------------------------------------
(* The next weekly expiry (page.js lines 160-168).  Today is a day of the  *)
(* year 2025, whose 1 January is a Wednesday.                              *)

DaysBefore == <<0, 31, 59, 90, 120, 151, 181, 212, 243, 273, 304, 334, 365>>

MonthShort == <<"Jan", "Feb", "Mar", "Apr", "May", "Jun",
                "Jul", "Aug", "Sept", "Oct", "Nov", "Dec">>

\* Date.prototype.getDay: 0 is Sunday
GetDay(dayOfYear) == (3 + dayOfYear - 1) % 7

\* variant: the distance without the "|| 7"
DaysUntilTueOrToday(day) == (2 - day + 7) % 7

\* (2 - day + 7) % 7 || 7
DaysUntilTue(day) ==
    LET d == (2 - day + 7) % 7 IN IF d = 0 THEN 7 ELSE d

\* toLocaleDateString("en-GB", {day: "2-digit", month: "short"}) of a day that
\* setDate may have carried into the next January
FormatDate(dayOfYear) ==
    LET d == IF dayOfYear > 365 THEN dayOfYear - 365 ELSE dayOfYear
        m == CHOOSE k \in 1..12 : DaysBefore[k] < d /\ d <= DaysBefore[k + 1]
    IN  Pad2(d - DaysBefore[m]) \o " " \o MonthShort[m]

NextExpiry(day) == FormatDate(day + DaysUntilTue(GetDay(day)))

-----------------------------------------------------------------------------
(* app/telegram/page.js: what the sections compose                         *)

\* what a build function returns: a text, or null after an error toast
Composed(text) == [null |-> FALSE, text |-> text, toast |-> ""]
Rejected(why) == [null |-> TRUE, text |-> "", toast |-> why]

\* line 20
strikes == {24000 + i * 50 : i \in 0..((50000 - 24000) \div 50)}

FreshInitial ==
    [confirmMode |-> FALSE, preview |-> "", action |-> "BUY", strike |-> 24000,
     optionType |-> "CE", marketDirection |-> "BULLISH",
     buyOptionType |-> "CE", sellOptionType |-> "PE",
     buyPrice |-> <<>>, sellPrice |-> <<>>, expiry |-> "",
     buyStopLoss |-> <<>>, sellStopLoss |-> <<>>]

\* variant: a section whose effect never runs: the legs stay as they were
DirectionEffectStale(f) == f

\* lines 170-180: the effect on [action, marketDirection]
DirectionEffect(f) ==
    IF f.action = "BOTH"
    THEN IF f.marketDirection = "BULLISH"
         THEN [f EXCEPT !.buyOptionType = "CE", !.sellOptionType = "PE"]
         ELSE [f EXCEPT !.buyOptionType = "PE", !.sellOptionType = "CE"]
    ELSE f

\* lines 145-168: the section as mounted, its expiry effect run
FreshMount(day) == [FreshInitial EXCEPT !.expiry = NextExpiry(day)]

\* variant: a reset handler that leaves the price and stop-loss inputs alone
FreshResetKeepsPrices(f) ==
    [f EXCEPT !.action = "BUY", !.strike = 24000, !.optionType = "CE",
              !.marketDirection = "BULLISH", !.buyOptionType = "CE",
              !.sellOptionType = "PE", !.preview = "", !.confirmMode = FALSE]

\* lines 183-196
FreshResetHandler(f) ==
    [f EXCEPT !.action = "BUY", !.strike = 24000, !.optionType = "CE",
              !.marketDirection = "BULLISH", !.buyOptionType = "CE",
              !.sellOptionType = "PE", !.buyPrice = <<>>, !.sellPrice = <<>>,
              !.buyStopLoss = <<>>, !.sellStopLoss = <<>>,
              !.preview = "", !.confirmMode = FALSE]

NoRange == [null |-> TRUE, text |-> ""]

\* variant: a getRangeText that refuses NaN only
FreshGetRangeTextNaNOnly(val) ==
    LET range(low) ==
            IF low.kind = "NaN" THEN NoRange
            ELSE IF low.kind = "Infinity"
            THEN [null |-> FALSE, text |-> "Infinity - Infinity"]
            ELSE [null |-> FALSE,
                  text |-> NumberToString(low.h) \o " - " \o NumberToString(low.h + 500)]
    IN  range(Number(val))

\* lines 203-209
FreshGetRangeText(val) ==
    LET format(n) ==
            IF n.tiny # 0 THEN (IF n.tiny < 0 THEN "-0.00" ELSE "0.00")
            ELSE IF IsInteger(n.h) THEN NumberToString(n.h) ELSE ToFixed2(n.h)
        \* low + 5: a double near 5 has no room for a part under 1e-17
        high(low) == Finite(low.h + 500)
        range(low) ==
            IF ~isFinite(low) THEN NoRange
            ELSE [null |-> FALSE, text |-> format(low) \o " - " \o format(high(low))]
    IN  range(Number(val))

\* variant: a builder of one leg that never writes the stop-loss line
FreshBuildDropsStopLoss(f) ==
    LET build(range) ==
            IF range.null THEN Rejected("Enter valid price")
            ELSE Composed("FRESH TRADE\n\n\"" \o f.action \o "\" " \o f.expiry
                     \o " \"Nifty " \o ToString(f.strike) \o " " \o f.optionType
                     \o "\" between " \o range.text)
    IN  build(FreshGetRangeText(IF f.action = "SELL" THEN f.sellPrice ELSE f.buyPrice))

\* variant: a builder of both legs that writes the buy stop-loss only
FreshBuildBuyStopLossOnly(f) ==
    LET leg(side, type, range) ==
            "\"" \o side \o "\" " \o f.expiry \o " \"Nifty " \o ToString(f.strike)
                \o " " \o type \o "\" between " \o range.text
        build(buyRange, sellRange) ==
            IF f.action # "BOTH" \/ buyRange.null \/ sellRange.null
            THEN Rejected("Enter both buy and sell prices")
            ELSE Composed("FRESH TRADE\n\n" \o leg("BUY", f.buyOptionType, buyRange)
                     \o "\nAND\n" \o leg("SELL", f.sellOptionType, sellRange)
                     \o (IF f.buyStopLoss # <<>>
                         THEN "\n\nStop loss for " \o ToString(f.strike) \o " "
                                  \o f.buyOptionType \o " is " \o Str(f.buyStopLoss)
                         ELSE ""))
    IN  build(FreshGetRangeText(f.buyPrice), FreshGetRangeText(f.sellPrice))

\* lines 211-255
FreshBuildPreviewMessage(f) ==
    LET leg(side, type, range) ==
            "\"" \o side \o "\" " \o f.expiry \o " \"Nifty " \o ToString(f.strike)
                \o " " \o type \o "\" between " \o range.text
        stop(type, loss) == ToString(f.strike) \o " " \o type \o " is " \o Str(loss)
        build(buyRange, sellRange) ==
            CASE f.action = "BUY" ->
                   IF buyRange.null THEN Rejected("Enter valid buy price")
                   ELSE Composed("FRESH TRADE\n\n" \o leg("BUY", f.optionType, buyRange)
                            \o (IF f.buyStopLoss # <<>>
                                THEN "\n\nStop loss for " \o stop(f.optionType, f.buyStopLoss)
                                ELSE ""))
              [] f.action = "SELL" ->
                   IF sellRange.null THEN Rejected("Enter valid sell price")
                   ELSE Composed("FRESH TRADE\n\n" \o leg("SELL", f.optionType, sellRange)
                            \o (IF f.sellStopLoss # <<>>
                                THEN "\n\nStop loss for " \o stop(f.optionType, f.sellStopLoss)
                                ELSE ""))
              [] f.action = "BOTH" ->
                   IF buyRange.null \/ sellRange.null
                   THEN Rejected("Enter both buy and sell prices")
                   ELSE Composed("FRESH TRADE\n\n" \o leg("BUY", f.buyOptionType, buyRange)
                            \o "\nAND\n" \o leg("SELL", f.sellOptionType, sellRange)
                            \o (IF f.buyStopLoss # <<>> /\ f.sellStopLoss # <<>>
                                THEN "\n\nStop loss for " \o stop(f.buyOptionType, f.buyStopLoss)
                                         \o " and " \o stop(f.sellOptionType, f.sellStopLoss)
                                ELSE IF f.buyStopLoss # <<>>
                                THEN "\n\nStop loss for " \o stop(f.buyOptionType, f.buyStopLoss)
                                ELSE IF f.sellStopLoss # <<>>
                                THEN "\n\nStop loss for " \o stop(f.sellOptionType, f.sellStopLoss)
                                ELSE ""))
    IN  build(FreshGetRangeText(f.buyPrice), FreshGetRangeText(f.sellPrice))

\* lines 438-444
squareOffTemplates(id) ==
    CASE id = "book100" -> "Modify stop loss and book 100% profit."
      [] id = "book50" -> "Modify stop loss and book 50% profit and now keep trailing stop loss at cost for remaining 50% qty."
      [] id = "trailprofit" -> "Trailing stop loss triggered. Modify stop loss and book profit for remaining 50% quantity."
      [] id = "trailclose" -> "Trailing stop loss triggered. Square off position."
      [] id = "stoploss" -> "Stop loss triggered. Modify your stop loss and square off position."
      [] OTHER -> ""

\* lines 428-436; strikes?.[0] ?? 25900 is the first strike
SquareOffInitial ==
    [exitMode |-> "", marketView |-> "BULLISH", strike |-> 24000,
     ceExit |-> <<>>, peExit |-> <<>>, singleExit |-> <<>>,
     selectedOption |-> "", action |-> "book100", preview |-> ""]

\* lines 447-457
SquareOffResetHandler(q) == SquareOffInitial

\* variant: a builder for both legs that prices each leg with the other
\* leg's exit
SquareOffBuildCrossed(q) ==
    LET at(type, price) == ToString(q.strike) \o " " \o type \o " @ " \o Str(price)
        head == "SQUARE OFF\n" \o squareOffTemplates(q.action) \o " "
    IN  IF q.exitMode # "BOTH" THEN Composed("")
        ELSE IF q.ceExit = <<>> \/ q.peExit = <<>>
        THEN Rejected("Enter both CE and PE exit prices.")
        ELSE IF q.marketView = "BULLISH"
        THEN Composed(head \o "Sell " \o at("CE", q.peExit) \o " and Buy " \o at("PE", q.ceExit))
        ELSE Composed(head \o "Sell " \o at("PE", q.ceExit) \o " and Buy " \o at("CE", q.peExit))

\* variant: a builder for one leg that does not ask for the option side
SquareOffBuildUnselected(q) ==
    IF q.exitMode \notin {"BUY", "SELL"} THEN Composed("")
    ELSE IF q.singleExit = <<>> THEN Rejected("Enter exit price.")
    ELSE Composed("SQUARE OFF\n" \o squareOffTemplates(q.action) \o " "
             \o (IF q.exitMode = "BUY" THEN "Sell " ELSE "Buy ")
             \o ToString(q.strike) \o " " \o q.selectedOption \o " @ " \o Str(q.singleExit))

\* lines 462-514
SquareOffBuildMessage(q) ==
    LET actionText == squareOffTemplates(q.action)
        at(type, price) == ToString(q.strike) \o " " \o type \o " @ " \o Str(price)
        head == "SQUARE OFF\n" \o actionText \o " "
    IN  IF actionText = "" THEN Rejected("Select valid action type.")
        ELSE CASE q.exitMode = "BUY" ->
                    IF q.selectedOption = ""
                    THEN Rejected("Select CE or PE to exit from Buy position.")
                    ELSE IF q.singleExit = <<>> THEN Rejected("Enter exit price.")
                    ELSE Composed(head \o "Sell " \o at(q.selectedOption, q.singleExit))
               [] q.exitMode = "SELL" ->
                    IF q.selectedOption = ""
                    THEN Rejected("Select CE or PE to exit from Sell position.")
                    ELSE IF q.singleExit = <<>> THEN Rejected("Enter exit price.")
                    ELSE Composed(head \o "Buy " \o at(q.selectedOption, q.singleExit))
               [] q.exitMode = "BOTH" ->
                    IF q.ceExit = <<>> \/ q.peExit = <<>>
                    THEN Rejected("Enter both CE and PE exit prices.")
                    ELSE IF q.marketView = "BULLISH"
                    THEN Composed(head \o "Sell " \o at("CE", q.ceExit)
                                       \o " and Buy " \o at("PE", q.peExit))
                    ELSE Composed(head \o "Sell " \o at("PE", q.peExit)
                                       \o " and Buy " \o at("CE", q.ceExit))
               [] OTHER -> Composed("")

\* lines 784-815: the text of the template with this id ("" when find fails)
expiryTemplates(id) ==
    CASE id = "book100" -> "Modify stop loss and book 100% profit."
      [] id = "book50" -> "Modify stop loss and book 50% profit and now keep trailing stop loss at cost for remaining 50% qty."
      [] id = "trailprofit" -> "Trailing stop loss triggered. Modify stop loss and book profit for remaining 50% quantity."
      [] id = "trailclose" -> "Trailing stop loss triggered. Modify your stop loss and square off position."
      [] id = "stoploss" -> "Stop loss triggered. Modify your stop loss and square off position."
      [] OTHER -> ""

\* variant: a section whose default strike lies between two strikes on offer
ExpiryInitialOffGrid ==
    [marketView |-> "BULLISH", strike |-> 25925, exitPrice |-> <<>>,
     template |-> "book100", preview |-> ""]

\* lines 778-782
ExpiryInitial ==
    [marketView |-> "BULLISH", strike |-> 25900, exitPrice |-> <<>>,
     template |-> "book100", preview |-> ""]

\* lines 845-851
ExpiryResetHandler(x) == ExpiryInitial

\* variant: a builder that names the side of the market view itself
ExpiryBuildSameSide(x) ==
    IF x.exitPrice = <<>> THEN Rejected("Enter Exit Price")
    ELSE IF expiryTemplates(x.template) = "" THEN Rejected("Select message type")
    ELSE Composed("SQUARE OFF\n" \o expiryTemplates(x.template) \o " Buy "
                      \o ToString(x.strike) \o " "
                      \o (IF x.marketView = "BULLISH" THEN "CE" ELSE "PE")
                      \o " @ " \o Str(x.exitPrice))

\* variant: a builder that remembers that a preview is already on show
ExpiryBuildRemembering(x) ==
    IF x.exitPrice = <<>> THEN Rejected("Enter Exit Price")
    ELSE IF expiryTemplates(x.template) = "" THEN Rejected("Select message type")
    ELSE Composed("SQUARE OFF\n" \o expiryTemplates(x.template) \o " Buy "
                      \o ToString(x.strike) \o " "
                      \o (IF x.marketView = "BULLISH" THEN "PE" ELSE "CE")
                      \o " @ " \o Str(x.exitPrice)
                      \o (IF x.preview # "" THEN " (repeat)" ELSE ""))

\* lines 817-836
ExpiryBuildMessage(x) ==
    IF x.exitPrice = <<>> THEN Rejected("Enter Exit Price")
    ELSE IF expiryTemplates(x.template) = "" THEN Rejected("Select message type")
    ELSE Composed("SQUARE OFF\n" \o expiryTemplates(x.template) \o " Buy "
                      \o ToString(x.strike) \o " "
                      \o (IF x.marketView = "BULLISH" THEN "PE" ELSE "CE")
                      \o " @ " \o Str(x.exitPrice))

\* line 744
IgnoreInitial == [loading |-> FALSE]

-----------------------------------------------------------------------------
(* app/telegram/page.js: TelegramPage                                      *)

MaxInFlight == 2

\* lines 24-27: the whitelist the browser bundle carries
ClientWhitelist(env) ==
    SelectSeq(MapTrim(Split(IF env.defined THEN env.raw ELSE <<>>)),
              LAMBDA e : e # <<>>)

\* lines 22-29: what the effect on [session] leaves in authorized
WhitelistEffect(env, sess) ==
    IF ~HasEmail(sess) THEN FALSE
    ELSE Includes(ClientWhitelist(env), sess.email)

\* variant: a guard that asks for a session and ignores authorized
GuardOpen(st, sess, auth) == st # "loading" /\ sess.present

\* lines 64-66: the page renders its tabs and a section
Guard(st, sess, auth) == st # "loading" /\ sess.present /\ auth

Visible == Guard(status, session, authorized)

\* lines 95-98: the one section the page renders
Mounted(tab) == Visible /\ activeTab = tab

NoPost == [sent |-> FALSE, message |-> ""]
NoSnapshot == [valid |-> FALSE, tab |-> "", inputs |-> <<>>]

InFlightKinds == {"form", "ignoreLive", "ignoreDead"}
InFlightTotal == inflight["form"] + inflight["ignoreLive"] + inflight["ignoreDead"]

\* a handler that raises no toast and sends nothing
Quiet == toast' = "" /\ posted' = NoPost

\* the inputs of a section: its state without the preview card
FreshInputs(f) == [f EXCEPT !.preview = "", !.confirmMode = FALSE]
SquareOffInputs(q) == [q EXCEPT !.preview = ""]
ExpiryInputs(x) == [x EXCEPT !.preview = ""]

\* the sections when tab is the one rendered: the others are not mounted and
\* hold no state; a section mounts in its initial state
SectionsMount(tab) ==
    /\ fresh' = IF tab = "trade" THEN FreshMount(today) ELSE FreshInitial
    /\ squareOff' = SquareOffInitial
    /\ expiryTrades' = ExpiryInitial
    /\ ignoreAlert' = IgnoreInitial

SectionsUnmount ==
    /\ fresh' = FreshInitial
    /\ squareOff' = SquareOffInitial
    /\ expiryTrades' = ExpiryInitial
    /\ ignoreAlert' = IgnoreInitial

\* an unmounted IgnoreAlertSection no longer sees its fetch settle
OrphanIgnore ==
    [inflight EXCEPT !["ignoreDead"] = @ + inflight["ignoreLive"], !["ignoreLive"] = 0]

\* line 16 and lines 22-29, 64-66: useSession gives a new value, the page
\* renders and the whitelist effect runs
UseSession(st, sess) ==
    /\ st \in {"authenticated", "unauthenticated"}
    /\ sess.present <=> st = "authenticated"
    /\ <<st, sess>> # <<status, session>>
    /\ status' = st
    /\ session' = sess
    /\ authorized' = WhitelistEffect(clientEnv, sess)
    /\ IF Visible /\ Guard(st, sess, authorized')
       THEN UNCHANGED <<sectionVars, inflight, beforeConfirm>>
       ELSE /\ IF Guard(st, sess, authorized')
               THEN SectionsMount(activeTab)
               ELSE SectionsUnmount
            /\ inflight' = OrphanIgnore
            /\ beforeConfirm' = NoSnapshot
    /\ Quiet
    /\ UNCHANGED <<clientEnv, today, activeTab>>
    /\ UNCHANGED <<srvVars, draftVars>>

\* line 83
SetActiveTab(tab) ==
    /\ Visible
    /\ tab # activeTab
    /\ activeTab' = tab
    /\ SectionsMount(tab)
    /\ inflight' = OrphanIgnore
    /\ beforeConfirm' = NoSnapshot
    /\ Quiet
    /\ UNCHANGED <<clientEnv, today, status, session, authorized>>
    /\ UNCHANGED <<srvVars, draftVars>>

\* variant: a sendToTelegram that issues its fetch twice
SendToTelegramTwice(message, kind) ==
    IF message = ""
    THEN /\ toast' = "No message to send"
         /\ posted' = NoPost
         /\ UNCHANGED inflight
    ELSE /\ toast' = "Sending..."
         /\ posted' = [sent |-> TRUE, message |-> message]
         /\ inflight' = [inflight EXCEPT ![kind] = @ + 2]

\* lines 41-49: sendToTelegram up to the fetch it awaits
SendToTelegram(message, kind) ==
    IF message = ""
    THEN /\ toast' = "No message to send"
         /\ posted' = NoPost
         /\ UNCHANGED inflight
    ELSE /\ toast' = "Sending..."
         /\ posted' = [sent |-> TRUE, message |-> message]
         /\ inflight' = [inflight EXCEPT ![kind] = @ + 1]

SendOutcomes == {"ok", "notOk", "notOkNoError", "throws"}

\* lines 50-60: the toast sendToTelegram ends with
SettleToast(outcome) ==
    CASE outcome = "ok" -> "Message sent!"
      [] outcome = "notOk" -> "Failed: Access denied"
      [] outcome = "notOkNoError" -> "Failed: unknown"
      [] outcome = "throws" -> "Unexpected error"

\* lines 53-54: reset-forms reaches the listener of the mounted section
ResetForms ==
    /\ fresh' = IF Mounted("trade") THEN FreshResetHandler(fresh) ELSE fresh
    /\ squareOff' = IF Mounted("squareoff") THEN SquareOffResetHandler(squareOff)
                    ELSE squareOff
    /\ expiryTrades' = IF Mounted("expiry") THEN ExpiryResetHandler(expiryTrades)
                       ELSE expiryTrades

\* variant: a handleSend without its finally: loading is put back only after
\* a success
SendSettlesNoFinally(kind, outcome) ==
    /\ inflight[kind] > 0
    /\ inflight' = [inflight EXCEPT ![kind] = @ - 1]
    /\ toast' = SettleToast(outcome)
    /\ posted' = NoPost
    /\ IF outcome = "ok"
       THEN ResetForms /\ beforeConfirm' = NoSnapshot
       ELSE UNCHANGED <<fresh, squareOff, expiryTrades, beforeConfirm>>
    /\ ignoreAlert' = IF kind = "ignoreLive" /\ outcome = "ok"
                      THEN [ignoreAlert EXCEPT !.loading = FALSE]
                      ELSE ignoreAlert
    /\ UNCHANGED <<clientEnv, today, status, session, authorized, activeTab>>
    /\ UNCHANGED <<srvVars, draftVars>>

\* lines 50-60 and 751-753: a fetch settles; sendToTelegram ends, and the
\* handleSend that awaited it, if its section is still there, ends too
SendSettles(kind, outcome) ==
    /\ inflight[kind] > 0
    /\ inflight' = [inflight EXCEPT ![kind] = @ - 1]
    /\ toast' = SettleToast(outcome)
    /\ posted' = NoPost
    /\ IF outcome = "ok"
       THEN ResetForms /\ beforeConfirm' = NoSnapshot
       ELSE UNCHANGED <<fresh, squareOff, expiryTrades, beforeConfirm>>
    /\ ignoreAlert' = IF kind = "ignoreLive" THEN [ignoreAlert EXCEPT !.loading = FALSE]
                      ELSE ignoreAlert
    /\ UNCHANGED <<clientEnv, today, status, session, authorized, activeTab>>
    /\ UNCHANGED <<srvVars, draftVars>>

pageFixed == <<clientEnv, today, status, session, authorized, activeTab>>

-----------------------------------------------------------------------------
(* app/telegram/page.js: FreshTradeSection                                 *)

\* an onChange handler of the form: it sets one field and nothing else
FreshEdited(f) ==
    /\ Mounted("trade")
    /\ f # fresh
    /\ fresh' = f
    /\ beforeConfirm' = NoSnapshot
    /\ Quiet
    /\ UNCHANGED <<pageFixed, squareOff, expiryTrades, ignoreAlert, inflight>>
    /\ UNCHANGED <<srvVars, draftVars>>

\* line 280, then the effect of lines 170-180
FreshSetAction(opt) == FreshEdited(DirectionEffect([fresh EXCEPT !.action = opt]))

\* line 300
FreshSetStrike(s) == FreshEdited([fresh EXCEPT !.strike = s])

\* lines 312-323: rendered unless the action is BOTH
FreshSetOptionType(t) ==
    fresh.action # "BOTH" /\ FreshEdited([fresh EXCEPT !.optionType = t])

\* lines 334-345: rendered when the action is BOTH; then the effect of 170-180
FreshSetMarketDirection(d) ==
    fresh.action = "BOTH"
        /\ FreshEdited(DirectionEffect([fresh EXCEPT !.marketDirection = d]))

\* lines 356-403: each input is rendered for the actions that use it
FreshSetBuyPrice(v) ==
    fresh.action \in {"BUY", "BOTH"} /\ FreshEdited([fresh EXCEPT !.buyPrice = v])

FreshSetBuyStopLoss(v) ==
    fresh.action \in {"BUY", "BOTH"} /\ FreshEdited([fresh EXCEPT !.buyStopLoss = v])

FreshSetSellPrice(v) ==
    fresh.action \in {"SELL", "BOTH"} /\ FreshEdited([fresh EXCEPT !.sellPrice = v])

FreshSetSellStopLoss(v) ==
    fresh.action \in {"SELL", "BOTH"} /\ FreshEdited([fresh EXCEPT !.sellStopLoss = v])

\* variant: a handlePreview without its early return
FreshShowAnyway(f, msg) == [f EXCEPT !.preview = msg.text, !.confirmMode = TRUE]

\* lines 260-262: the state handlePreview leaves, given what was built
FreshShow(f, msg) ==
    IF msg.null \/ msg.text = "" THEN f
    ELSE [f EXCEPT !.preview = msg.text, !.confirmMode = TRUE]

\* lines 257-263
FreshHandlePreview ==
    /\ Mounted("trade")
    /\ LET msg == FreshBuildPreviewMessage(fresh)
       IN  /\ fresh' = FreshShow(fresh, msg)
           /\ toast' = msg.toast
    /\ posted' = NoPost
    /\ UNCHANGED <<pageFixed, squareOff, expiryTrades, ignoreAlert, inflight,
                   beforeConfirm>>
    /\ UNCHANGED <<srvVars, draftVars>>

\* lines 412-416
FreshOnConfirm ==
    /\ Mounted("trade")
    /\ fresh.confirmMode
    /\ InFlightTotal < MaxInFlight
    /\ SendToTelegram(fresh.preview, "form")
    /\ fresh' = [fresh EXCEPT !.confirmMode = FALSE, !.preview = ""]
    /\ beforeConfirm' = [valid |-> TRUE, tab |-> "trade", inputs |-> FreshInputs(fresh)]
    /\ UNCHANGED <<pageFixed, squareOff, expiryTrades, ignoreAlert>>
    /\ UNCHANGED <<srvVars, draftVars>>

\* variant: a Cancel that leaves the card on show
FreshOnCancelKeepsCard ==
    /\ Mounted("trade")
    /\ fresh.confirmMode
    /\ fresh' = fresh
    /\ Quiet
    /\ UNCHANGED <<pageFixed, squareOff, expiryTrades, ignoreAlert, inflight,
                   beforeConfirm>>
    /\ UNCHANGED <<srvVars, draftVars>>

\* line 417
FreshOnCancel ==
    /\ Mounted("trade")
    /\ fresh.confirmMode
    /\ fresh' = [fresh EXCEPT !.confirmMode = FALSE]
    /\ Quiet
    /\ UNCHANGED <<pageFixed, squareOff, expiryTrades, ignoreAlert, inflight,
                   beforeConfirm>>
    /\ UNCHANGED <<srvVars, draftVars>>

-----------------------------------------------------------------------------
(* app/telegram/page.js: SquareOffSection                                  *)

SquareOffEdited(q) ==
    /\ Mounted("squareoff")
    /\ q # squareOff
    /\ squareOff' = q
    /\ beforeConfirm' = NoSnapshot
    /\ Quiet
    /\ UNCHANGED <<pageFixed, fresh, expiryTrades, ignoreAlert, inflight>>
    /\ UNCHANGED <<srvVars, draftVars>>

\* lines 530-562
SquareOffSetExitMode(m) == SquareOffEdited([squareOff EXCEPT !.exitMode = m])

\* line 571
SquareOffSetStrike(s) == SquareOffEdited([squareOff EXCEPT !.strike = s])

\* lines 583-618: rendered for a single exit
SquareOffSetSelectedOption(t) ==
    squareOff.exitMode \in {"BUY", "SELL"}
        /\ SquareOffEdited([squareOff EXCEPT !.selectedOption = t])

SquareOffSetSingleExit(v) ==
    squareOff.exitMode \in {"BUY", "SELL"}
        /\ SquareOffEdited([squareOff EXCEPT !.singleExit = v])

\* lines 623-685: rendered for an exit from both
SquareOffSetMarketView(d) ==
    squareOff.exitMode = "BOTH" /\ SquareOffEdited([squareOff EXCEPT !.marketView = d])

SquareOffSetCeExit(v) ==
    squareOff.exitMode = "BOTH" /\ SquareOffEdited([squareOff EXCEPT !.ceExit = v])

SquareOffSetPeExit(v) ==
    squareOff.exitMode = "BOTH" /\ SquareOffEdited([squareOff EXCEPT !.peExit = v])

\* lines 690-709: rendered once an exit mode is chosen
SquareOffSetAction(id) ==
    squareOff.exitMode # "" /\ SquareOffEdited([squareOff EXCEPT !.action = id])

\* line 519
SquareOffShow(q, msg) ==
    IF msg.null \/ msg.text = "" THEN q ELSE [q EXCEPT !.preview = msg.text]

\* lines 516-520; the submit button is rendered once an exit mode is chosen
SquareOffHandlePreview ==
    /\ Mounted("squareoff")
    /\ squareOff.exitMode # ""
    /\ LET msg == SquareOffBuildMessage(squareOff)
       IN  /\ squareOff' = SquareOffShow(squareOff, msg)
           /\ toast' = msg.toast
    /\ posted' = NoPost
    /\ UNCHANGED <<pageFixed, fresh, expiryTrades, ignoreAlert, inflight, beforeConfirm>>
    /\ UNCHANGED <<srvVars, draftVars>>

\* variant: an onConfirm that clears the exit prices and leaves the card
SquareOffConfirmedKeepsCard(q) ==
    [q EXCEPT !.ceExit = <<>>, !.peExit = <<>>, !.singleExit = <<>>]

\* lines 727-730: what onConfirm sets
SquareOffConfirmed(q) ==
    [q EXCEPT !.preview = "", !.ceExit = <<>>, !.peExit = <<>>, !.singleExit = <<>>]

\* lines 725-731
SquareOffOnConfirm ==
    /\ Mounted("squareoff")
    /\ squareOff.preview # ""
    /\ InFlightTotal < MaxInFlight
    /\ SendToTelegram(squareOff.preview, "form")
    /\ squareOff' = SquareOffConfirmed(squareOff)
    /\ beforeConfirm' = [valid |-> TRUE, tab |-> "squareoff",
                         inputs |-> SquareOffInputs(squareOff)]
    /\ UNCHANGED <<pageFixed, fresh, expiryTrades, ignoreAlert>>
    /\ UNCHANGED <<srvVars, draftVars>>

\* line 732
SquareOffOnCancel ==
    /\ Mounted("squareoff")
    /\ squareOff.preview # ""
    /\ squareOff' = [squareOff EXCEPT !.preview = ""]
    /\ Quiet
    /\ UNCHANGED <<pageFixed, fresh, expiryTrades, ignoreAlert, inflight, beforeConfirm>>
    /\ UNCHANGED <<srvVars, draftVars>>

-----------------------------------------------------------------------------
(* app/telegram/page.js: ExpiryTradesSection                               *)

ExpiryEdited(x) ==
    /\ Mounted("expiry")
    /\ x # expiryTrades
    /\ expiryTrades' = x
    /\ beforeConfirm' = NoSnapshot
    /\ Quiet
    /\ UNCHANGED <<pageFixed, fresh, squareOff, ignoreAlert, inflight>>
    /\ UNCHANGED <<srvVars, draftVars>>

\* lines 864-885
ExpirySetMarketView(d) == ExpiryEdited([expiryTrades EXCEPT !.marketView = d])

\* line 894
ExpirySetStrike(s) == ExpiryEdited([expiryTrades EXCEPT !.strike = s])

\* line 913
ExpirySetExitPrice(v) == ExpiryEdited([expiryTrades EXCEPT !.exitPrice = v])

\* line 924
ExpirySetTemplate(id) == ExpiryEdited([expiryTrades EXCEPT !.template = id])

\* line 841
ExpiryShow(x, msg) ==
    IF msg.null \/ msg.text = "" THEN x ELSE [x EXCEPT !.preview = msg.text]

\* lines 838-842
ExpiryHandlePreview ==
    /\ Mounted("expiry")
    /\ LET msg == ExpiryBuildMessage(expiryTrades)
       IN  /\ expiryTrades' = ExpiryShow(expiryTrades, msg)
           /\ toast' = msg.toast
    /\ posted' = NoPost
    /\ UNCHANGED <<pageFixed, fresh, squareOff, ignoreAlert, inflight, beforeConfirm>>
    /\ UNCHANGED <<srvVars, draftVars>>

\* lines 949-950: what onConfirm sets
ExpiryConfirmed(x) == [x EXCEPT !.preview = "", !.exitPrice = <<>>]

\* lines 947-951
ExpiryOnConfirm ==
    /\ Mounted("expiry")
    /\ expiryTrades.preview # ""
    /\ InFlightTotal < MaxInFlight
    /\ SendToTelegram(expiryTrades.preview, "form")
    /\ expiryTrades' = ExpiryConfirmed(expiryTrades)
    /\ beforeConfirm' = [valid |-> TRUE, tab |-> "expiry",
                         inputs |-> ExpiryInputs(expiryTrades)]
    /\ UNCHANGED <<pageFixed, fresh, squareOff, ignoreAlert>>
    /\ UNCHANGED <<srvVars, draftVars>>

\* line 952
ExpiryOnCancel ==
    /\ Mounted("expiry")
    /\ expiryTrades.preview # ""
    /\ expiryTrades' = [expiryTrades EXCEPT !.preview = ""]
    /\ Quiet
    /\ UNCHANGED <<pageFixed, fresh, squareOff, ignoreAlert, inflight, beforeConfirm>>
    /\ UNCHANGED <<srvVars, draftVars>>

-----------------------------------------------------------------------------
(* app/telegram/page.js: IgnoreAlertSection                                *)

\* variant: a handleSend without its loading guard, under an enabled button
IgnoreClickAlways(loading) == TRUE

\* lines 747 and 764: a click reaches past the guard of handleSend
IgnoreClickPasses(loading) == ~loading

\* variant: a handleSend whose text depends on the sends still under way
IgnoreHandleSendCounting ==
    /\ Mounted("ignore")
    /\ IgnoreClickPasses(ignoreAlert.loading)
    /\ InFlightTotal < MaxInFlight
    /\ ignoreAlert' = [ignoreAlert EXCEPT !.loading = TRUE]
    /\ SendToTelegram(IF inflight["form"] > 0 THEN "Kindly ignore the alerts"
                      ELSE "Kindly ignore the alert", "ignoreLive")
    /\ beforeConfirm' = NoSnapshot
    /\ UNCHANGED <<pageFixed, fresh, squareOff, expiryTrades>>
    /\ UNCHANGED <<srvVars, draftVars>>

\* lines 746-750: handleSend up to the onSend it awaits
IgnoreHandleSend ==
    /\ Mounted("ignore")
    /\ IgnoreClickPasses(ignoreAlert.loading)
    /\ InFlightTotal < MaxInFlight
    /\ ignoreAlert' = [ignoreAlert EXCEPT !.loading = TRUE]
    /\ SendToTelegram("Kindly ignore the alert", "ignoreLive")
    /\ beforeConfirm' = NoSnapshot
    /\ UNCHANGED <<pageFixed, fresh, squareOff, expiryTrades>>
    /\ UNCHANGED <<srvVars, draftVars>>

-----------------------------------------------------------------------------
(* The page as a whole                                                     *)

ActionChoices == {"BUY", "SELL", "BOTH"}
OptionTypes == {"CE", "PE"}
Directions == {"BULLISH", "BEARISH"}
TabChoices == {"trade", "squareoff", "expiry", "ignore"}
TemplateIds == {"book100", "book50", "trailprofit", "trailclose", "stoploss"}

\* the values the model types into the inputs
StrikeChoices == {24000, 25900}
FinitePrices == { <<>>, <<"1", "6", "0">> }
PriceChoices == FinitePrices \cup { <<"1", "e", "9", "9", "9">> }
StopLossChoices == { <<>>, <<"1", "2", "0">> }
ExitChoices == { <<>>, <<"1", "2", "0">> }
TemplateChoices == {"book100", "trailclose"}
TodayChoices == {308}
ClientEnvChoices == { EnvText(<<"a", ",", " ", "b">>) }
PageSessions == {NoSession, SessionNoEmail, SessionOf(<<"a">>), SessionOf(<<"c">>)}

\* lines 9-21
DraftInitial ==
    [authorized |-> FALSE, action |-> "BUY", strike |-> 24000, optionType |-> "CE",
     buyOptionType |-> "PE", sellOptionType |-> "CE", expiry |-> "",
     buyPrice |-> <<>>, sellPrice |-> <<>>, preview |-> "", confirmMode |-> FALSE]

\* the draft page is not the one rendered
DraftParked ==
    /\ draft = DraftInitial
    /\ sameSidePreviewed = FALSE

\* route.js takes no step in the specifications of the page
ServerParked ==
    /\ srvEnv = Unset
    /\ srvPc = "idle"
    /\ request = IdleRequest
    /\ response = NoResponse
    /\ telegramLog = <<>>
    /\ posts = 0

PageInit ==
    /\ clientEnv \in ClientEnvChoices
    /\ today \in TodayChoices
    /\ status = "loading"
    /\ session = NoSession
    /\ authorized = FALSE
    /\ activeTab = "trade"
    /\ fresh = FreshInitial
    /\ squareOff = SquareOffInitial
    /\ expiryTrades = ExpiryInitial
    /\ ignoreAlert = IgnoreInitial
    /\ inflight = [k \in InFlightKinds |-> 0]
    /\ toast = ""
    /\ posted = NoPost
    /\ beforeConfirm = NoSnapshot

\* the page with every section; the Fresh Trade form is driven through its
\* action, strike and prices here, and through its other inputs in FreshNext
PageNext ==
    \/ \E st \in {"authenticated", "unauthenticated"}, s \in PageSessions : UseSession(st, s)
    \/ \E t \in TabChoices : SetActiveTab(t)
    \/ \E k \in InFlightKinds, o \in SendOutcomes : SendSettles(k, o)
    \/ \E a \in ActionChoices : FreshSetAction(a)
    \/ \E n \in StrikeChoices : FreshSetStrike(n)
    \/ \E v \in PriceChoices : FreshSetBuyPrice(v)
    \/ \E v \in PriceChoices : FreshSetSellPrice(v)
    \/ FreshHandlePreview
    \/ FreshOnConfirm
    \/ FreshOnCancel
    \/ \E m \in ActionChoices : SquareOffSetExitMode(m)
    \/ \E t \in OptionTypes : SquareOffSetSelectedOption(t)
    \/ \E v \in ExitChoices : SquareOffSetSingleExit(v)
    \/ \E d \in Directions : SquareOffSetMarketView(d)
    \/ \E v \in ExitChoices : SquareOffSetCeExit(v)
    \/ \E v \in ExitChoices : SquareOffSetPeExit(v)
    \/ \E id \in TemplateChoices : SquareOffSetAction(id)
    \/ SquareOffHandlePreview
    \/ SquareOffOnConfirm
    \/ SquareOffOnCancel
    \/ \E d \in Directions : ExpirySetMarketView(d)
    \/ \E n \in StrikeChoices : ExpirySetStrike(n)
    \/ \E v \in ExitChoices : ExpirySetExitPrice(v)
    \/ \E id \in TemplateChoices : ExpirySetTemplate(id)
    \/ ExpiryHandlePreview
    \/ ExpiryOnConfirm
    \/ ExpiryOnCancel
    \/ IgnoreHandleSend

\* the Fresh Trade tab of a page whose user is on the whitelist
FreshInit ==
    /\ clientEnv \in ClientEnvChoices
    /\ today \in TodayChoices
    /\ status = "authenticated"
    /\ session = SessionOf(<<"a">>)
    /\ authorized = WhitelistEffect(clientEnv, session)
    /\ activeTab = "trade"
    /\ fresh = FreshMount(today)
    /\ squareOff = SquareOffInitial
    /\ expiryTrades = ExpiryInitial
    /\ ignoreAlert = IgnoreInitial
    /\ inflight = [k \in InFlightKinds |-> 0]
    /\ toast = ""
    /\ posted = NoPost
    /\ beforeConfirm = NoSnapshot

FreshNext ==
    \/ \E o \in SendOutcomes : SendSettles("form", o)
    \/ \E a \in ActionChoices : FreshSetAction(a)
    \/ \E t \in OptionTypes : FreshSetOptionType(t)
    \/ \E d \in Directions : FreshSetMarketDirection(d)
    \/ \E v \in FinitePrices : FreshSetBuyPrice(v)
    \/ \E v \in FinitePrices : FreshSetSellPrice(v)
    \/ \E v \in StopLossChoices : FreshSetBuyStopLoss(v)
    \/ \E v \in StopLossChoices : FreshSetSellStopLoss(v)
    \/ FreshHandlePreview
    \/ FreshOnConfirm
    \/ FreshOnCancel

\* the section alone in the browser: route.js and the draft page take no step
FreshSpecInit == ServerParked /\ DraftParked /\ FreshInit

PageSpecInit == ServerParked /\ DraftParked /\ PageInit

SpecFresh ==
    FreshSpecInit /\ [][FreshNext]_vars

SpecPage ==
    PageSpecInit /\ [][PageNext]_vars

-----------------------------------------------------------------------------
(* unnamed/part_000: the draft page, one form with separately selectable   *)
(* buy and sell sides.  It shares the browser with the tabbed page: the    *)
(* session, the whitelist, the clock, the fetches and the toasts.          *)

\* lines 24-35: the page as mounted, its expiry effect run
DraftMount(day) == [DraftInitial EXCEPT !.expiry = NextExpiry(day)]

\* lines 38-45: what the effect on [session] leaves in authorized
DraftWhitelistEffect(env, sess, auth) ==
    IF sess.present /\ sess.hasEmail /\ sess.email # <<>>
    THEN Includes(MapTrim(Split(IF env.defined THEN env.raw ELSE <<>>)), sess.email)
    ELSE auth

\* lines 47-49
DraftVisible == status # "loading" /\ session.present /\ draft.authorized

\* String(n) for any number
JsToString(n) ==
    CASE n.kind = "finite" -> NumberToString(n.h)
      [] n.kind = "Infinity" -> "Infinity"
      [] n.kind = "NaN" -> "NaN"

\* lines 58-63
DraftGetRangeText(val) ==
    LET range(low) ==
            IF low.kind = "NaN" THEN NoRange
            ELSE [null |-> FALSE,
                  text |-> JsToString(low) \o " - "
                             \o JsToString(IF isFinite(low) THEN Finite(low.h + 500) ELSE low)]
    IN  range(Number(val))

\* lines 66-102
DraftBuildPreviewMessage(d) ==
    LET leg(side, type, range) ==
            "\"" \o side \o "\" " \o d.expiry \o " \"Nifty " \o ToString(d.strike)
                \o " " \o type \o "\" between " \o range.text
        build(buyRange, sellRange) ==
            CASE d.action = "BUY" ->
                   IF buyRange.null THEN Rejected("Enter a valid buy base price")
                   ELSE Composed("FRESH TRADE\n\n" \o leg("BUY", d.optionType, buyRange))
              [] d.action = "SELL" ->
                   IF sellRange.null THEN Rejected("Enter a valid sell base price")
                   ELSE Composed("FRESH TRADE\n\n" \o leg("SELL", d.optionType, sellRange))
              [] OTHER ->
                   IF buyRange.null \/ sellRange.null
                   THEN Rejected("Enter both buy and sell base prices")
                   ELSE Composed("FRESH TRADE\n\n" \o leg("BUY", d.buyOptionType, buyRange)
                            \o "\nAND\n" \o leg("SELL", d.sellOptionType, sellRange))
    IN  build(DraftGetRangeText(d.buyPrice), DraftGetRangeText(d.sellPrice))

\* price == 0, a string compared with a number
LooseEqualsZero(val) == Number(val) = Finite(0)

\* lines 108-113: the text handlePreview shows for what was built
DraftPreviewText(d, msg) ==
    IF d.action = "BOTH" /\ (LooseEqualsZero(d.buyPrice) \/ LooseEqualsZero(d.sellPrice))
    THEN "ERROR: PLEASE ENTER THE RANGE"
    ELSE IF d.action = "BOTH" /\ d.buyOptionType = d.sellOptionType
    THEN "ERROR: NOT A DIRECTIONAL TRADE"
    ELSE msg.text

\* line 16 and lines 38-49: useSession gives a new value and the effect runs
DraftUseSession(st, sess) ==
    /\ st \in {"authenticated", "unauthenticated"}
    /\ sess.present <=> st = "authenticated"
    /\ <<st, sess>> # <<status, session>>
    /\ status' = st
    /\ session' = sess
    /\ draft' = [draft EXCEPT !.authorized = DraftWhitelistEffect(clientEnv, sess, @)]
    /\ Quiet
    /\ UNCHANGED <<clientEnv, today, inflight, sameSidePreviewed>>
    /\ UNCHANGED <<srvVars, tabbedVars>>

\* an onChange handler of the form
DraftEdited(d) ==
    /\ DraftVisible
    /\ d # draft
    /\ draft' = d
    /\ Quiet
    /\ UNCHANGED <<clientEnv, today, status, session, inflight, sameSidePreviewed>>
    /\ UNCHANGED <<srvVars, tabbedVars>>

\* line 169
DraftSetAction(opt) == DraftEdited([draft EXCEPT !.action = opt])

\* lines 198-209: rendered unless the action is BOTH
DraftSetOptionType(t) ==
    draft.action # "BOTH" /\ DraftEdited([draft EXCEPT !.optionType = t])

\* lines 221-259: rendered when the action is BOTH
DraftSetBuyOptionType(t) ==
    draft.action = "BOTH" /\ DraftEdited([draft EXCEPT !.buyOptionType = t])

DraftSetSellOptionType(t) ==
    draft.action = "BOTH" /\ DraftEdited([draft EXCEPT !.sellOptionType = t])

\* lines 264-320
DraftSetBuyPrice(v) ==
    draft.action \in {"BUY", "BOTH"} /\ DraftEdited([draft EXCEPT !.buyPrice = v])

DraftSetSellPrice(v) ==
    draft.action \in {"SELL", "BOTH"} /\ DraftEdited([draft EXCEPT !.sellPrice = v])

\* lines 105-116
DraftHandlePreview ==
    /\ DraftVisible
    /\ LET msg == DraftBuildPreviewMessage(draft)
       IN  IF msg.null \/ msg.text = ""
           THEN /\ toast' = msg.toast
                /\ UNCHANGED <<draft, sameSidePreviewed>>
           ELSE /\ toast' = ""
                /\ draft' = [draft EXCEPT !.preview = DraftPreviewText(draft, msg),
                                          !.confirmMode = TRUE]
                /\ sameSidePreviewed' =
                      (draft.action = "BOTH" /\ draft.buyOptionType = draft.sellOptionType)
    /\ posted' = NoPost
    /\ UNCHANGED <<clientEnv, today, status, session, inflight>>
    /\ UNCHANGED <<srvVars, tabbedVars>>

\* lines 119-126 and 339: Confirm & Send, up to the fetch it awaits
DraftSendToTelegram ==
    /\ DraftVisible
    /\ draft.confirmMode
    /\ InFlightTotal < MaxInFlight
    /\ toast' = "Sending message..."
    /\ posted' = [sent |-> TRUE, message |-> draft.preview]
    /\ inflight' = [inflight EXCEPT !["form"] = @ + 1]
    /\ UNCHANGED <<clientEnv, today, status, session, draft, sameSidePreviewed>>
    /\ UNCHANGED <<srvVars, tabbedVars>>

\* line 345
DraftCancel ==
    /\ DraftVisible
    /\ draft.confirmMode
    /\ draft' = [draft EXCEPT !.confirmMode = FALSE]
    /\ Quiet
    /\ UNCHANGED <<clientEnv, today, status, session, inflight, sameSidePreviewed>>
    /\ UNCHANGED <<srvVars, tabbedVars>>

\* lines 132-140
DraftReset(d) ==
    [d EXCEPT !.action = "BUY", !.strike = 24000, !.optionType = "CE",
              !.buyOptionType = "PE", !.sellOptionType = "CE",
              !.buyPrice = <<>>, !.sellPrice = <<>>,
              !.preview = "", !.confirmMode = FALSE]

\* lines 127-146: the fetch settles
DraftSendSettles(outcome) ==
    /\ inflight["form"] > 0
    /\ inflight' = [inflight EXCEPT !["form"] = @ - 1]
    /\ posted' = NoPost
    /\ IF outcome = "ok"
       THEN /\ toast' = "Message sent successfully!"
            /\ draft' = DraftReset(draft)
            /\ sameSidePreviewed' = FALSE
       ELSE /\ toast' = IF outcome = "throws" THEN "Unexpected error!"
                        ELSE IF outcome = "notOk" THEN "Failed: Access denied"
                        ELSE "Failed: undefined"
            /\ UNCHANGED <<draft, sameSidePreviewed>>
    /\ UNCHANGED <<clientEnv, today, status, session>>
    /\ UNCHANGED <<srvVars, tabbedVars>>

\* the tabbed page is not the one rendered in the specification of the draft
TabbedPageParked ==
    /\ authorized = FALSE
    /\ activeTab = "trade"
    /\ fresh = FreshInitial
    /\ squareOff = SquareOffInitial
    /\ expiryTrades = ExpiryInitial
    /\ ignoreAlert = IgnoreInitial
    /\ beforeConfirm = NoSnapshot

DraftInit ==
    /\ clientEnv \in ClientEnvChoices
    /\ today \in TodayChoices
    /\ status = "loading"
    /\ session = NoSession
    /\ draft = DraftMount(today)
    /\ sameSidePreviewed = FALSE
    /\ inflight = [k \in InFlightKinds |-> 0]
    /\ toast = ""
    /\ posted = NoPost

DraftNext ==
    \/ \E st \in {"authenticated", "unauthenticated"}, s \in PageSessions :
          DraftUseSession(st, s)
    \/ \E a \in ActionChoices : DraftSetAction(a)
    \/ \E t \in OptionTypes : DraftSetOptionType(t)
    \/ \E t \in OptionTypes : DraftSetBuyOptionType(t)
    \/ \E t \in OptionTypes : DraftSetSellOptionType(t)
    \/ \E v \in FinitePrices : DraftSetBuyPrice(v)
    \/ \E v \in FinitePrices : DraftSetSellPrice(v)
    \/ DraftHandlePreview
    \/ DraftSendToTelegram
    \/ DraftCancel
    \/ \E o \in SendOutcomes : DraftSendSettles(o)

DraftSpecInit == ServerParked /\ TabbedPageParked /\ DraftInit

SpecDraft ==
    DraftSpecInit /\ [][DraftNext]_vars

-----------------------------------------------------------------------------
(* Claims about route.js                                                   *)

\* email is one of the comma-separated entries of raw, once the entry's
\* surrounding blanks are dropped (stated on positions, not by splitting)
IsTrimmedEntry(raw, email) ==
    \E i \in 0..Len(raw), j \in 1..(Len(raw) + 1) :
        /\ i < j
        /\ i = 0 \/ raw[i] = ","
        /\ j = Len(raw) + 1 \/ raw[j] = ","
        /\ \A k \in (i + 1)..(j - 1) : raw[k] # ","
        /\ \E a \in (i + 1)..j :
              LET b == a + Len(email) - 1
              IN  /\ b < j
                  /\ SubSeq(raw, a, b) = email
                  /\ \A k \in ((i + 1)..(a - 1)) \cup ((b + 1)..(j - 1)) : raw[k] = " "
                  /\ email # <<>> => email[1] # " " /\ email[Len(email)] # " "

\* C1: the handler reaches Telegram only for a session whose email is a
\* trimmed entry of AUTHORIZED_USERS; a caller with no session or no email is
\* answered 401 and one with another email 403, and for neither is Telegram
\* called, whatever the body holds.
C1_ServerGate ==
    LET s == request.session
        listed == srvEnv.defined /\ IsTrimmedEntry(srvEnv.raw, s.email)
        known == posts > 0 /\ ~request.sessionThrows
    IN  /\ request.called <=> (telegramLog # <<>>
                                 /\ response.status \in {0, 200, 500}
                                 /\ known /\ HasEmail(s) /\ listed
                                 /\ request.body.json /\ request.body.hasMessage
                                 /\ telegramLog[Len(telegramLog)] = request.body.message)
        /\ request.called => known /\ s.present /\ s.hasEmail /\ s.email # <<>> /\ listed
        /\ (known /\ ~(s.present /\ s.hasEmail /\ s.email # <<>>))
              => response.status = 401 /\ ~request.called
        /\ (known /\ s.present /\ s.hasEmail /\ s.email # <<>> /\ ~listed)
              => response.status = 403 /\ ~request.called

\* a whitelisted caller got a message through, then a caller outside the
\* whitelist was refused although its body carried a message
C1_Witness ==
    /\ srvPc = "done"
    /\ response.status = 403
    /\ request.body.hasMessage /\ request.body.message # ""
    /\ Len(telegramLog) = 1
    /\ posts = 2


\* the page takes no step in the specification of route.js; the whitelist the
\* browser carries is any text
PageParked ==
    /\ clientEnv \in EnvChoices
    /\ today = 1
    /\ status = "loading"
    /\ session = NoSession
    /\ authorized = FALSE
    /\ activeTab = "trade"
    /\ fresh = FreshInitial
    /\ squareOff = SquareOffInitial
    /\ expiryTrades = ExpiryInitial
    /\ ignoreAlert = IgnoreInitial
    /\ inflight = [k \in InFlightKinds |-> 0]
    /\ toast = ""
    /\ posted = NoPost
    /\ beforeConfirm = NoSnapshot

ServerSpecInit == ServerInit /\ PageParked /\ DraftParked

SpecServer ==
    ServerSpecInit /\ [][ServerNext]_vars

\* C23: the handler answers {success: true} only in the step in which
\* Telegram, called for this request, answers OK; every other answer to a
\* caller on the whitelist carries an error string and no success, with
\* status 400 exactly when the body is JSON with an empty or missing message
\* (and Telegram was not called), and 500 when the body cannot be read or
\* Telegram fails or the fetch throws.
C23_SuccessOnlyAfterTelegramOk ==
    [][(srvPc' = "done" /\ srvPc # "done")
        => LET r == request'
               emptyMessage == r.body.json /\ (~r.body.hasMessage \/ r.body.message = "")
           IN  /\ response'.success
                     <=> (srvPc = "telegram" /\ r.called /\ r.res = "ok")
               /\ r.res # "" <=> srvPc = "telegram"
               /\ response'.success => response'.status = 200 /\ response'.error = ""
               /\ (~response'.success /\ ~r.sessionThrows /\ Gate(srvEnv, r.session) = 0)
                     => /\ response'.error # ""
                        /\ response'.status = IF emptyMessage THEN 400 ELSE 500
                        /\ emptyMessage => ~r.called /\ telegramLog' = telegramLog
                        /\ (r.body.json /\ ~emptyMessage) => r.called /\ srvPc = "telegram"]_vars

C23_Witness ==
    /\ srvPc = "done"
    /\ Gate(srvEnv, request.session) = 0 /\ ~request.sessionThrows
    /\ request.body.json /\ request.body.hasMessage /\ request.body.message = ""
    /\ response.status = 400 /\ response.error = "Message cannot be empty"
    /\ Len(telegramLog) = 1 /\ posts = 2

-----------------------------------------------------------------------------
(* Claims about app/telegram/page.js, checked under SpecPage and SpecFresh *)

\* the session is absent or its email is not in the client whitelist
Blocked ==
    ~session.present \/ ~Includes(ClientWhitelist(clientEnv), session.email)

\* every step a user can take in a section or on the tab bar
UserStep ==
    \/ \E t \in TabChoices : SetActiveTab(t)
    \/ \E a \in ActionChoices : FreshSetAction(a)
    \/ \E n \in StrikeChoices : FreshSetStrike(n)
    \/ \E t \in OptionTypes : FreshSetOptionType(t)
    \/ \E d \in Directions : FreshSetMarketDirection(d)
    \/ \E v \in PriceChoices : FreshSetBuyPrice(v) \/ FreshSetSellPrice(v)
    \/ \E v \in StopLossChoices : FreshSetBuyStopLoss(v) \/ FreshSetSellStopLoss(v)
    \/ FreshHandlePreview \/ FreshOnConfirm \/ FreshOnCancel
    \/ \E m \in ActionChoices : SquareOffSetExitMode(m)
    \/ \E n \in StrikeChoices : SquareOffSetStrike(n)
    \/ \E t \in OptionTypes : SquareOffSetSelectedOption(t)
    \/ \E d \in Directions : SquareOffSetMarketView(d)
    \/ \E v \in ExitChoices :
          SquareOffSetSingleExit(v) \/ SquareOffSetCeExit(v) \/ SquareOffSetPeExit(v)
    \/ \E a \in TemplateIds : SquareOffSetAction(a)
    \/ SquareOffHandlePreview \/ SquareOffOnConfirm \/ SquareOffOnCancel
    \/ \E d \in Directions : ExpirySetMarketView(d)
    \/ \E n \in StrikeChoices : ExpirySetStrike(n)
    \/ \E v \in ExitChoices : ExpirySetExitPrice(v)
    \/ \E t \in TemplateIds : ExpirySetTemplate(t)
    \/ ExpiryHandlePreview \/ ExpiryOnConfirm \/ ExpiryOnCancel
    \/ IgnoreHandleSend

PreviewFails ==
    \/ Mounted("trade") /\ FreshBuildPreviewMessage(fresh).null
          /\ toast' = FreshBuildPreviewMessage(fresh).toast
    \/ Mounted("squareoff") /\ SquareOffBuildMessage(squareOff).null
          /\ toast' = SquareOffBuildMessage(squareOff).toast
    \/ Mounted("expiry") /\ ExpiryBuildMessage(expiryTrades).null
          /\ toast' = ExpiryBuildMessage(expiryTrades).toast

\* C3: a preview request that fails validation changes no field, preview text
\* or confirm flag of any section, and sends nothing to /api/sendMessage.
C3_FailedPreviewChangesNothing ==
    [][PreviewFails =>
          /\ UNCHANGED <<fresh, squareOff, expiryTrades, ignoreAlert>>
          /\ ~posted'.sent
          /\ UNCHANGED inflight]_vars

\* C3: a Fresh Trade preview was refused while an earlier preview is on show
C3_Witness ==
    /\ toast = "Enter valid buy price"
    /\ fresh.action = "BUY"
    /\ fresh.buyPrice = <<"1", "e", "9", "9", "9">>
    /\ fresh.confirmMode /\ fresh.preview # ""

\* a base price that is a non-empty string parsing to a finite number
ValidBasePrice(val) == val # <<>> /\ isFinite(Number(val))

\* the step puts a new preview on show in FreshTradeSection
FreshPreviewCreated ==
    \/ fresh'.preview \notin {fresh.preview, ""}
    \/ fresh'.confirmMode /\ ~fresh.confirmMode

\* C5: with action BUY (SELL), no preview is created while the buy (sell) base
\* price is empty or does not parse to a finite number.
C5_SinglePriceRequired ==
    [][(\/ fresh.action = "BUY" /\ ~ValidBasePrice(fresh.buyPrice)
        \/ fresh.action = "SELL" /\ ~ValidBasePrice(fresh.sellPrice))
          => ~FreshPreviewCreated]_vars

\* C6: with action BOTH, no preview is created while exactly one of the two
\* base prices is empty.
C6_BothPricesRequired ==
    [][(fresh.action = "BOTH" /\ (fresh.buyPrice = <<>>) # (fresh.sellPrice = <<>>))
          => ~FreshPreviewCreated]_vars

\* the legs marketDirection determines
ComplementaryLegs(f) ==
    IF f.marketDirection = "BULLISH"
    THEN [f EXCEPT !.buyOptionType = "CE", !.sellOptionType = "PE"]
    ELSE [f EXCEPT !.buyOptionType = "PE", !.sellOptionType = "CE"]

\* C7: whenever the action is BOTH the two legs are the complementary pair of
\* marketDirection (CE bought and PE sold when BULLISH, PE bought and CE sold
\* when BEARISH), and every preview created with action BOTH is the text
\* composed with those legs.
C7_BothLegsComplementary ==
    [][/\ fresh'.action = "BOTH" =>
             /\ fresh' = ComplementaryLegs(fresh')
             /\ fresh'.buyOptionType # fresh'.sellOptionType
       /\ (fresh.action = "BOTH" /\ FreshPreviewCreated) =>
             fresh'.preview = FreshBuildPreviewMessage(ComplementaryLegs(fresh)).text]_vars

\* C7: a BEARISH BOTH message is on show, composed after the direction changed
C7_Witness ==
    /\ fresh.action = "BOTH"
    /\ fresh.marketDirection = "BEARISH"
    /\ fresh.confirmMode
    /\ fresh.preview = FreshBuildPreviewMessage(fresh).text
    /\ fresh.buyOptionType = "PE" /\ fresh.sellOptionType = "CE"

\* the toasts sendToTelegram ends a failed dispatch with
FailureToasts == {SettleToast(o) : o \in SendOutcomes \ {"ok"}}

\* the inputs of the section rendered under this tab
InputsOf(tab) ==
    CASE tab = "trade" -> FreshInputs(fresh)
      [] tab = "squareoff" -> SquareOffInputs(squareOff)
      [] tab = "expiry" -> ExpiryInputs(expiryTrades)
      [] OTHER -> <<>>

\* C8: when a dispatch fails and nothing was edited since confirm was
\* pressed, every input of the section that issued it holds the value it had
\* immediately before confirm was pressed.
C8_FailureKeepsInputs ==
    (toast \in FailureToasts /\ beforeConfirm.valid)
        => InputsOf(beforeConfirm.tab) = beforeConfirm.inputs

\* every form section holds what it holds when freshly mounted
FormsAtDefaults ==
    /\ fresh = IF Mounted("trade") THEN FreshMount(today) ELSE FreshInitial
    /\ squareOff = SquareOffInitial
    /\ expiryTrades = ExpiryInitial

\* C9: when a dispatch succeeds every field, the preview text and the confirm
\* flag of the mounted form section equal their defaults; when a
\* dispatch fails no section is reset or changed.
C9_ResetOnlyOnSuccess ==
    [][/\ toast' = SettleToast("ok") => FormsAtDefaults'
       /\ toast' \in FailureToasts => UNCHANGED <<fresh, squareOff, expiryTrades>>]_vars

\* C9: a dispatch has just succeeded on the Fresh Trade tab with a second one
\* still in flight
C9_Witness ==
    /\ toast = SettleToast("ok")
    /\ Mounted("trade")
    /\ fresh = FreshMount(today)
    /\ inflight["form"] = 1

\* C10: at most one request of the mounted IgnoreAlertSection is outstanding,
\* loading is true exactly while it is, and while loading is true no step
\* starts another one.
C10_IgnoreSingleInFlight ==
    [][/\ inflight'["ignoreLive"] <= 1
       /\ ignoreAlert'.loading <=> inflight'["ignoreLive"] = 1
       /\ ignoreAlert.loading => inflight'["ignoreLive"] <= inflight["ignoreLive"]]_vars

\* C10: the section is loading and the page could still start a request
C10_Witness ==
    /\ Mounted("ignore")
    /\ ignoreAlert.loading
    /\ inflight["ignoreLive"] = 1
    /\ InFlightTotal < MaxInFlight

-----------------------------------------------------------------------------
(* Claim about unnamed/part_000, checked under SpecDraft                   *)

\* C4: nothing is sent to /api/sendMessage from a preview that was requested
\* for a BOTH trade whose buy side equals its sell side.
C4_SameSideNeverSent ==
    posted.sent => ~sameSidePreviewed

-----------------------------------------------------------------------------
(* The page and route.js side by side: the user previews and confirms in   *)
(* every section while the handler serves POSTs.                           *)

DispatchInit ==
    /\ FreshInit
    /\ DraftParked
    /\ srvEnv = EnvText(<<"a">>)
    /\ srvPc = "idle"
    /\ request = IdleRequest
    /\ response = NoResponse
    /\ telegramLog = <<>>
    /\ posts = 0

DispatchNext ==
    \/ \E t \in TabChoices : SetActiveTab(t)
    \/ \E n \in {50000} : FreshSetStrike(n)
    \/ FreshHandlePreview
    \/ FreshOnConfirm
    \/ \E m \in {"BOTH"} : SquareOffSetExitMode(m)
    \/ \E n \in {50000} : SquareOffSetStrike(n)
    \/ \E v \in ExitChoices : SquareOffSetCeExit(v)
    \/ \E v \in ExitChoices : SquareOffSetPeExit(v)
    \/ SquareOffHandlePreview
    \/ SquareOffOnConfirm
    \/ \E n \in {50000} : ExpirySetStrike(n)
    \/ \E v \in ExitChoices : ExpirySetExitPrice(v)
    \/ ExpiryHandlePreview
    \/ ExpiryOnConfirm
    \/ IgnoreHandleSend
    \/ \E k \in InFlightKinds, o \in SendOutcomes : SendSettles(k, o)
    \/ \E s \in {SessionOf(<<"a">>), SessionOf(<<"c">>)}, b \in BodyChoices :
          POST(FALSE, s, b)
    \/ \E o \in TelegramOutcomes : TelegramAnswers(o)
    \/ Respond

SpecDispatch == DispatchInit /\ [][DispatchNext]_vars

\* the step is a click on Confirm & Send or on the Ignore Alert button
ConfirmStep ==
    FreshOnConfirm \/ SquareOffOnConfirm \/ ExpiryOnConfirm \/ IgnoreHandleSend

\* C11: a confirm step starts exactly one POST to /api/sendMessage and no
\* other step starts any (a settled fetch is never sent again); a request to
\* Telegram is made only in the step that handles a POST, at most once, and
\* never again after the handler saw it fail.
C11_SingleDispatch ==
    [][/\ ConfirmStep => posted'.sent /\ InFlightTotal' = InFlightTotal + 1
       /\ ~ConfirmStep => /\ posted'.sent => UNCHANGED pageVars
                           /\ InFlightTotal' <= InFlightTotal
       /\ Len(telegramLog') \in {Len(telegramLog), Len(telegramLog) + 1}
       /\ Len(telegramLog') = Len(telegramLog) + 1 => posts' = posts + 1
       /\ Len(telegramLog) <= posts]_vars

\* C11: a dispatch of the page has failed and the handler has answered 500
\* for its one request to Telegram; nothing is in flight any more
C11_Witness ==
    /\ toast \in FailureToasts
    /\ InFlightTotal = 0
    /\ srvPc = "done" /\ response.status = 500 /\ request.called
    /\ Len(telegramLog) = 1 /\ posts = 1

-----------------------------------------------------------------------------
(* The build functions over a range of section states: a section is on     *)
(* show with its fields already filled in, and the user asks for the       *)
(* preview.                                                                *)

\* the first of seven consecutive days in autumn, and of seven at the end of
\* the year, on which the page is opened
FirstDay == 302
YearEndDay == 359

ComposeInit ==
    LET days == FirstDay..(FirstDay + 6) \cup YearEndDay..(YearEndDay + 6)
        someStrikes == {24000, 25900, 50000}
        prices == { <<>>, <<"1", "6", "0">>, <<"1", "6", "0", ".", "5">>,
                    <<"9", "9", ".", "9", "9">>, <<"1", "e", "-", "2", "0">>,
                    <<"1", "e", "9", "9", "9">> }
        losses == { <<>>, <<"1", "2", "0">> }
        exits == { <<>>, <<"1", "2", "0">>, <<"1", "2", "5">> }
    IN  /\ clientEnv \in ClientEnvChoices
        /\ status = "authenticated"
        /\ session = SessionOf(<<"a">>)
        /\ authorized = WhitelistEffect(clientEnv, session)
        /\ activeTab \in {"trade", "squareoff", "expiry"}
        /\ today \in IF activeTab = "trade" THEN days ELSE {FirstDay}
        /\ fresh \in
              IF activeTab = "trade"
              THEN { DirectionEffect([FreshMount(today) EXCEPT
                         !.action = a, !.strike = n, !.optionType = t,
                         !.marketDirection = d, !.buyPrice = bp, !.sellPrice = sp,
                         !.buyStopLoss = bl, !.sellStopLoss = sl]) :
                       a \in ActionChoices, n \in someStrikes, t \in OptionTypes,
                       d \in Directions, bp \in prices, sp \in prices,
                       bl \in losses, sl \in losses }
              ELSE {FreshInitial}
        /\ squareOff \in
              IF activeTab = "squareoff"
              THEN { [SquareOffInitial EXCEPT
                         !.exitMode = m, !.marketView = d, !.strike = n,
                         !.ceExit = ce, !.peExit = pe, !.singleExit = se,
                         !.selectedOption = o, !.action = a] :
                       m \in ActionChoices, d \in Directions, n \in someStrikes,
                       ce \in exits, pe \in exits, se \in exits,
                       o \in OptionTypes \cup {""}, a \in TemplateIds }
              ELSE {SquareOffInitial}
        /\ expiryTrades \in
              IF activeTab = "expiry"
              THEN { [ExpiryInitial EXCEPT
                         !.marketView = d, !.strike = n, !.exitPrice = e,
                         !.template = t] :
                       d \in Directions, n \in someStrikes, e \in exits,
                       t \in TemplateIds }
              ELSE {ExpiryInitial}
        /\ ignoreAlert = IgnoreInitial
        /\ inflight = [k \in InFlightKinds |-> 0]
        /\ toast = ""
        /\ posted = NoPost
        /\ beforeConfirm = NoSnapshot
        /\ ServerParked
        /\ DraftParked

ComposeNext ==
    \/ FreshHandlePreview
    \/ SquareOffHandlePreview
    \/ ExpiryHandlePreview

SpecCompose == ComposeInit /\ [][ComposeNext]_vars

\* the price and the stop-loss field that belong to the action of a single leg
LegPrice(f) == IF f.action = "SELL" THEN f.sellPrice ELSE f.buyPrice
LegStopLoss(f) == IF f.action = "SELL" THEN f.sellStopLoss ELSE f.buyStopLoss

\* the text the specification gives for a single leg with this band
SingleLegWithBand(f, band) ==
    "FRESH TRADE\n\n\"" \o f.action \o "\" " \o f.expiry \o " \"Nifty "
        \o ToString(f.strike) \o " " \o f.optionType \o "\" between "
        \o band
        \o (IF LegStopLoss(f) # <<>>
            THEN "\n\nStop loss for " \o ToString(f.strike) \o " " \o f.optionType
                     \o " is " \o Str(LegStopLoss(f))
            ELSE "")

SingleLegText(f) == SingleLegWithBand(f, FreshGetRangeText(LegPrice(f)).text)

\* C12: a single-leg Fresh Trade (BUY or SELL) with a valid base price composes
\* exactly the header, the quoted action, the expiry label, the quoted
\* "Nifty <strike> <side>" and the band; the stop-loss line follows a blank
\* line exactly when the stop-loss field of that action is not empty, and the
\* preview on show is that text.
C12_SingleLegFormat ==
    (Mounted("trade") /\ fresh.action \in {"BUY", "SELL"}
        /\ ValidBasePrice(LegPrice(fresh)))
    => /\ FreshBuildPreviewMessage(fresh) = Composed(SingleLegText(fresh))
       /\ fresh.confirmMode => fresh.preview = SingleLegText(fresh)

C12_Witness ==
    /\ fresh.confirmMode
    /\ fresh.action = "BUY" /\ fresh.strike = 24000 /\ fresh.optionType = "CE"
    /\ fresh.buyPrice = <<"1", "6", "0">> /\ fresh.buyStopLoss = <<>>
    /\ fresh.preview = "FRESH TRADE\n\n\"BUY\" 11 Nov \"Nifty 24000 CE\" between 160 - 165"

\* the text the specification gives for squaring off both legs
BothExitText(q) ==
    "SQUARE OFF\n" \o squareOffTemplates(q.action) \o " "
        \o (IF q.marketView = "BULLISH"
            THEN "Sell " \o ToString(q.strike) \o " CE @ " \o Str(q.ceExit)
                     \o " and Buy " \o ToString(q.strike) \o " PE @ " \o Str(q.peExit)
            ELSE "Sell " \o ToString(q.strike) \o " PE @ " \o Str(q.peExit)
                     \o " and Buy " \o ToString(q.strike) \o " CE @ " \o Str(q.ceExit))

\* C13: with exit mode BOTH, SquareOff composes "SQUARE OFF", the template
\* text and, for BULLISH, Sell CE at the CE exit and Buy PE at the PE exit,
\* for BEARISH, Sell PE at the PE exit and Buy CE at the CE exit; with either
\* exit price empty it composes nothing and shows no preview.
C13_BothExit ==
    (Mounted("squareoff") /\ squareOff.exitMode = "BOTH")
    => IF squareOff.ceExit = <<>> \/ squareOff.peExit = <<>>
       THEN SquareOffBuildMessage(squareOff).null /\ squareOff.preview = ""
       ELSE /\ SquareOffBuildMessage(squareOff) = Composed(BothExitText(squareOff))
            /\ squareOff.preview \in {"", BothExitText(squareOff)}

C13_Witness ==
    /\ squareOff.exitMode = "BOTH" /\ squareOff.marketView = "BULLISH"
    /\ squareOff.ceExit = <<"1", "2", "0">> /\ squareOff.peExit = <<"1", "2", "5">>
    /\ squareOff.preview =
          "SQUARE OFF\nModify stop loss and book 100% profit. Sell 25900 CE @ 120 and Buy 25900 PE @ 125"

\* the text the specification gives for squaring off one leg
SingleExitText(q) ==
    "SQUARE OFF\n" \o squareOffTemplates(q.action) \o " "
        \o (IF q.exitMode = "BUY" THEN "Sell " ELSE "Buy ")
        \o ToString(q.strike) \o " " \o q.selectedOption \o " @ " \o Str(q.singleExit)

\* C14: with exit mode BUY or SELL, SquareOff composes a message only when an
\* option side is selected and the exit price is supplied; the message is
\* "Sell <strike> <side> @ <price>" for BUY and "Buy <strike> <side> @ <price>"
\* for SELL after the header and template text, with no second leg.
C14_SingleExit ==
    (Mounted("squareoff") /\ squareOff.exitMode \in {"BUY", "SELL"})
    => IF squareOff.selectedOption = "" \/ squareOff.singleExit = <<>>
       THEN SquareOffBuildMessage(squareOff).null /\ squareOff.preview = ""
       ELSE /\ SquareOffBuildMessage(squareOff) = Composed(SingleExitText(squareOff))
            /\ squareOff.preview \in {"", SingleExitText(squareOff)}

C14_Witness ==
    /\ squareOff.exitMode = "SELL" /\ squareOff.selectedOption = "PE"
    /\ squareOff.ceExit # <<>> /\ squareOff.peExit # <<>>
    /\ squareOff.preview =
          "SQUARE OFF\nTrailing stop loss triggered. Square off position. Buy 50000 PE @ 125"

\* the text the specification gives for an expiry-day trade
ExpiryText(x) ==
    "SQUARE OFF\n" \o expiryTemplates(x.template) \o " Buy " \o ToString(x.strike)
        \o " " \o (IF x.marketView = "BULLISH" THEN "PE" ELSE "CE")
        \o " @ " \o Str(x.exitPrice)

\* C15: whenever ExpiryTradesSection puts a message on show, the exit price
\* is not empty and the message is a Buy instruction for PE when the market
\* view is BULLISH and for CE when it is BEARISH, whatever the strike, the
\* template and the price; the step changes nothing else in the section.
C15_ExpiryBuySide ==
    [][(expiryTrades'.preview # expiryTrades.preview /\ expiryTrades'.preview # "")
        => /\ Mounted("expiry")
           /\ expiryTrades.exitPrice # <<>>
           /\ expiryTrades' = [expiryTrades EXCEPT !.preview = ExpiryText(expiryTrades)]]_vars

C15_Witness ==
    /\ expiryTrades.marketView = "BEARISH"
    /\ expiryTrades.strike = 24000
    /\ expiryTrades.template = "trailclose"
    /\ expiryTrades.preview =
          "SQUARE OFF\nTrailing stop loss triggered. Modify your stop loss and square off position. Buy 24000 CE @ 120"

\* the stop-loss clause the specification gives for both legs
BothStopLossClause(f) ==
    LET buy == ToString(f.strike) \o " " \o f.buyOptionType \o " is " \o Str(f.buyStopLoss)
        sell == ToString(f.strike) \o " " \o f.sellOptionType \o " is " \o Str(f.sellStopLoss)
    IN  IF f.buyStopLoss # <<>> /\ f.sellStopLoss # <<>>
        THEN "\n\nStop loss for " \o buy \o " and " \o sell
        ELSE IF f.buyStopLoss # <<>> THEN "\n\nStop loss for " \o buy
        ELSE IF f.sellStopLoss # <<>> THEN "\n\nStop loss for " \o sell
        ELSE ""

\* the same form with both stop-loss fields empty
WithoutStopLoss(f) == [f EXCEPT !.buyStopLoss = <<>>, !.sellStopLoss = <<>>]

\* C16: a Fresh Trade of both legs that composes a message writes the message
\* it would write with no stop-loss, followed by a clause that names the buy
\* side with the buy stop-loss and the sell side with the sell stop-loss when
\* both fields are filled in, the one side whose field is filled in when only
\* one is, and nothing when neither is.
C16_BothStopLossClause ==
    (Mounted("trade") /\ fresh.action = "BOTH" /\ ~FreshBuildPreviewMessage(fresh).null)
    => /\ ~FreshBuildPreviewMessage(WithoutStopLoss(fresh)).null
       /\ FreshBuildPreviewMessage(fresh).text =
             FreshBuildPreviewMessage(WithoutStopLoss(fresh)).text
                 \o BothStopLossClause(fresh)
       /\ fresh.confirmMode => fresh.preview = FreshBuildPreviewMessage(fresh).text

C16_Witness ==
    /\ fresh.action = "BOTH" /\ fresh.marketDirection = "BEARISH"
    /\ fresh.buyStopLoss = <<>> /\ fresh.sellStopLoss = <<"1", "2", "0">>
    /\ fresh.confirmMode
    /\ fresh.preview =
          "FRESH TRADE\n\n\"BUY\" 11 Nov \"Nifty 25900 PE\" between 160 - 165\nAND\n\"SELL\" 11 Nov \"Nifty 25900 CE\" between 160.50 - 165.50\n\nStop loss for 25900 CE is 120"

\* C17: every message dispatched while the Ignore Alert tab is on show is
\* exactly "Kindly ignore the alert", and it is dispatched by handleSend,
\* whatever the forms held, whichever tabs were visited and whatever is
\* still being sent.
C17_IgnoreMessageConstant ==
    [][/\ (Mounted("ignore") /\ posted'.sent /\ pageVars' # pageVars)
           => /\ posted'.message = "Kindly ignore the alert"
              /\ inflight'["ignoreLive"] = inflight["ignoreLive"] + 1
       /\ IgnoreHandleSend
           => posted' = [sent |-> TRUE, message |-> "Kindly ignore the alert"]]_vars

C17_Witness ==
    /\ activeTab = "ignore"
    /\ ignoreAlert.loading
    /\ posted = [sent |-> TRUE, message |-> "Kindly ignore the alert"]
    /\ inflight["form"] = 1 /\ inflight["ignoreLive"] = 1

\* C18: the expiry label of a mounted Fresh Trade section is the date d days
\* after today with 1 <= d <= 7, that date is a Tuesday, d is 7 when today is
\* a Tuesday and otherwise the distance 1..6 to the first Tuesday after
\* today, and the label is never today's date.
C18_NextTuesday ==
    Mounted("trade")
    => /\ \E d \in 1..7 :
             /\ fresh.expiry = FormatDate(today + d)
             /\ GetDay(today + d) = 2
             /\ GetDay(today) = 2 => d = 7
             /\ GetDay(today) # 2 =>
                   d <= 6 /\ \A j \in 1..(d - 1) : GetDay(today + j) # 2
       /\ fresh.expiry # FormatDate(today)

C18_Witness ==
    /\ Mounted("trade")
    /\ GetDay(today) = 2
    /\ FormatDate(today) = "04 Nov"
    /\ fresh.expiry = "11 Nov"
    /\ fresh.confirmMode

\* the band the specification gives for the number p: both sides as integer
\* literals when p is whole, both with two decimals otherwise
BandOf(p) ==
    IF p.tiny = 0 /\ p.h % 100 = 0
    THEN NumberToString(p.h) \o " - " \o NumberToString(p.h + 500)
    ELSE ToFixed2(p.h) \o " - " \o ToFixed2(p.h + 500)

\* C19: for every price that parses to a finite number p, the band in the
\* preview of a single leg is "<low> - <high>" with low = p and high = p + 5,
\* both sides integer literals when p is whole and both with exactly two
\* decimals otherwise.
C19_RangeText ==
    (Mounted("trade") /\ fresh.confirmMode /\ fresh.action \in {"BUY", "SELL"}
        /\ ValidBasePrice(LegPrice(fresh)))
    => fresh.preview = SingleLegWithBand(fresh, BandOf(Number(LegPrice(fresh))))

\* texts that are no numeric literal
NonNumericTexts ==
    { <<"a", "b", "c">>, <<"1", "2", "a">>, <<"-">>, <<".">>, <<"1", "e">>,
      <<"1", "e", "9", "9", "9">> }

\* a band that the action of the form uses is null
BandIsNull(f) ==
    \/ f.action \in {"BUY", "BOTH"} /\ FreshGetRangeText(f.buyPrice).null
    \/ f.action \in {"SELL", "BOTH"} /\ FreshGetRangeText(f.sellPrice).null

\* C20: getRangeText returns null for every text that does not parse to a
\* finite number, and a preview request of Fresh Trade whose band is null
\* leaves the section as it was, with no preview put on show, shows an error
\* toast and dispatches nothing.
C20_NullRangeNoPreview ==
    [][FreshHandlePreview
        => /\ \A v \in NonNumericTexts \cup {fresh.buyPrice, fresh.sellPrice} :
                 ~isFinite(Number(v)) => FreshGetRangeText(v) = NoRange
           /\ BandIsNull(fresh)
                 => /\ fresh' = fresh
                    /\ toast' \in {"Enter valid buy price", "Enter valid sell price",
                                   "Enter both buy and sell prices"}
                    /\ ~posted'.sent
                    /\ inflight' = inflight
                    /\ UNCHANGED srvVars]_vars

C20_Witness ==
    /\ Mounted("trade")
    /\ fresh.action = "BUY"
    /\ fresh.buyPrice = <<"1", "e", "9", "9", "9">>
    /\ ~fresh.confirmMode /\ fresh.preview = ""
    /\ toast = "Enter valid buy price"
    /\ ~posted.sent /\ InFlightTotal = 0

\* a strike on offer, said without the list of line 20
OnGrid(n) == n % 50 = 0 /\ 24000 <= n /\ n <= 50000

\* C21: in every reachable state the strike of Fresh Trade, of Square Off and
\* of Expiry is a multiple of 50 between 24000 and 50000 inclusive: as
\* mounted, after a choice from the list, and after a reset.
C21_StrikeOnGrid ==
    /\ OnGrid(fresh.strike)
    /\ OnGrid(squareOff.strike)
    /\ OnGrid(expiryTrades.strike)
    /\ \A n \in strikes : OnGrid(n)

C21_Witness ==
    /\ Mounted("expiry")
    /\ expiryTrades.strike = 50000
    /\ expiryTrades.preview =
          "SQUARE OFF\nModify stop loss and book 100% profit. Buy 50000 PE @ 120"

\* the text a preview request puts on show, given the text that composing
\* from the field values alone yields: that text, or what was on show when
\* the request fails
ShownAfterPreview(before, after, msg) ==
    IF msg.null \/ msg.text = "" THEN after = before ELSE after = msg.text

\* C22: in each section the text a preview request puts on show is the text
\* composed from the field values (and the expiry label) alone, whatever was
\* on show before and whatever previews, cancels, tab changes, dispatches and
\* resets came before; composing again from the same values gives the same
\* text.
C22_ComposeDeterministic ==
    [][/\ FreshHandlePreview =>
             ShownAfterPreview(fresh.preview, fresh'.preview,
                               FreshBuildPreviewMessage(FreshInputs(fresh)))
       /\ SquareOffHandlePreview =>
             ShownAfterPreview(squareOff.preview, squareOff'.preview,
                               SquareOffBuildMessage(SquareOffInputs(squareOff)))
       /\ ExpiryHandlePreview =>
             ShownAfterPreview(expiryTrades.preview, expiryTrades'.preview,
                               ExpiryBuildMessage(ExpiryInputs(expiryTrades)))]_vars

C22_Witness ==
    /\ Mounted("expiry")
    /\ inflight["form"] = 1
    /\ expiryTrades.preview # ""
    /\ expiryTrades.preview = ExpiryBuildMessage(ExpiryInputs(expiryTrades)).text
    /\ toast = ""

\* C24: a step that dispatches from a trade tab is the Confirm of the card on
\* show and sends the text of that card; a card comes on show, or changes
\* its text, only by a preview request that composed the text; a Cancel
\* takes the card away and sends nothing.
C24_PreviewThenConfirm ==
    [][/\ (posted'.sent /\ pageVars' # pageVars /\ activeTab # "ignore")
           => \/ /\ FreshOnConfirm
                 /\ fresh.confirmMode /\ posted'.message = fresh.preview
              \/ /\ SquareOffOnConfirm
                 /\ squareOff.preview # "" /\ posted'.message = squareOff.preview
              \/ /\ ExpiryOnConfirm
                 /\ expiryTrades.preview # "" /\ posted'.message = expiryTrades.preview
       /\ (fresh'.confirmMode /\ (~fresh.confirmMode \/ fresh'.preview # fresh.preview))
           => /\ FreshHandlePreview
              /\ ~FreshBuildPreviewMessage(fresh).null
              /\ fresh'.preview = FreshBuildPreviewMessage(fresh).text
       /\ squareOff'.preview \notin {"", squareOff.preview}
           => /\ SquareOffHandlePreview
              /\ ~SquareOffBuildMessage(squareOff).null
              /\ squareOff'.preview = SquareOffBuildMessage(squareOff).text
       /\ expiryTrades'.preview \notin {"", expiryTrades.preview}
           => /\ ExpiryHandlePreview
              /\ ~ExpiryBuildMessage(expiryTrades).null
              /\ expiryTrades'.preview = ExpiryBuildMessage(expiryTrades).text
       /\ FreshOnCancel
           => ~fresh'.confirmMode /\ ~posted'.sent /\ inflight' = inflight
       /\ SquareOffOnCancel
           => squareOff'.preview = "" /\ ~posted'.sent /\ inflight' = inflight
       /\ ExpiryOnCancel
           => expiryTrades'.preview = "" /\ ~posted'.sent /\ inflight' = inflight]_vars

\* a Fresh Trade preview was composed and cancelled: its text is still held,
\* the card is gone and nothing is being sent
C24_Witness ==
    /\ Mounted("trade")
    /\ fresh.preview # "" /\ ~fresh.confirmMode
    /\ ~posted.sent /\ InFlightTotal = 0
    /\ toast = ""

\* a preview card is on show in a trade section
CardOnShow ==
    \/ Mounted("trade") /\ fresh.confirmMode
    \/ Mounted("squareoff") /\ squareOff.preview # ""
    \/ Mounted("expiry") /\ expiryTrades.preview # ""

\* C26: in the three trade sections a request for a form is started only by
\* the Confirm of a card on show, that step starts exactly one request and
\* takes the card away, and Confirm is not offered without a card: one card
\* on show leads to at most one POST.
C26_OnePostPerPreview ==
    [][/\ inflight'["form"] > inflight["form"]
           => /\ CardOnShow
              /\ FreshOnConfirm \/ SquareOffOnConfirm \/ ExpiryOnConfirm
              /\ inflight'["form"] = inflight["form"] + 1
              /\ ~CardOnShow'
              /\ fresh'.preview = "" /\ squareOff'.preview = ""
              /\ expiryTrades'.preview = ""
       /\ (FreshOnConfirm \/ SquareOffOnConfirm \/ ExpiryOnConfirm)
           => inflight'["form"] = inflight["form"] + 1 /\ ~CardOnShow'
       /\ (ENABLED (FreshOnConfirm \/ SquareOffOnConfirm \/ ExpiryOnConfirm))
           => CardOnShow]_vars

C26_Witness ==
    /\ Mounted("squareoff")
    /\ posted.sent /\ toast = "Sending..."
    /\ squareOff.preview = ""
    /\ inflight["form"] = 1

\* C27: when a send succeeds, a mounted form that was edited since the last
\* Confirm, or that has a card on show composed since then, keeps its fields
\* and its card.
C27_ResetSparesLaterInput ==
    [][(/\ toast' = SettleToast("ok")
        /\ InFlightTotal' < InFlightTotal
        /\ ~beforeConfirm.valid \/ CardOnShow)
          => UNCHANGED <<fresh, squareOff, expiryTrades>>]_vars

\* C28: in the Square Off and Expiry forms a card on show carries the text
\* that composing the fields now in the form gives.
C28_CardMatchesFields ==
    /\ (Mounted("squareoff") /\ squareOff.preview # "")
          => squareOff.preview
                 = SquareOffBuildMessage(SquareOffInputs(squareOff)).text
    /\ (Mounted("expiry") /\ expiryTrades.preview # "")
          => expiryTrades.preview
                 = ExpiryBuildMessage(ExpiryInputs(expiryTrades)).text

\* the Expiry form that asks to buy the same option at the same price under
\* the same template id as this Square Off form
ExpiryTwin(q) ==
    [ExpiryInitial EXCEPT
        !.template = q.action, !.strike = q.strike, !.exitPrice = q.singleExit,
        !.marketView = IF q.selectedOption = "PE" THEN "BULLISH" ELSE "BEARISH"]

\* C29: the template id of a composed card stands for the same text in
\* SquareOffSection and in ExpiryTradesSection, and so the card that Square
\* Off composes for the exit of a sold option is the card that Expiry composes
\* for the same id, strike, side and price.
C29_SameTemplateTexts ==
    /\ (Mounted("squareoff") /\ squareOff.preview # "")
          => squareOffTemplates(squareOff.action)
                 = expiryTemplates(squareOff.action)
    /\ (Mounted("expiry") /\ expiryTrades.preview # "")
          => squareOffTemplates(expiryTrades.template)
                 = expiryTemplates(expiryTrades.template)
    /\ (Mounted("squareoff") /\ squareOff.preview # ""
            /\ squareOff.exitMode = "SELL")
          => squareOff.preview = ExpiryBuildMessage(ExpiryTwin(squareOff)).text

\* C30: at most one "Kindly ignore the alert" request is outstanding, those
\* of an IgnoreAlertSection that a tab switch has unmounted included.
C30_OneIgnoreAcrossTabs ==
    inflight["ignoreLive"] + inflight["ignoreDead"] <= 1

-----------------------------------------------------------------------------
(* The sends of the page when every fetch returns or throws                *)

LiveNext ==
    \/ \E t \in TabChoices : SetActiveTab(t)
    \/ IgnoreHandleSend
    \/ \E v \in ExitChoices : ExpirySetExitPrice(v)
    \/ ExpiryHandlePreview
    \/ ExpiryOnConfirm
    \/ \E k \in InFlightKinds, o \in SendOutcomes : SendSettles(k, o)

\* every fetch that is under way returns or throws
FetchesReturn ==
    \A k \in InFlightKinds : WF_vars(\E o \in SendOutcomes : SendSettles(k, o))

SpecLive == FreshSpecInit /\ [][LiveNext]_vars /\ FetchesReturn

\* C25: when every fetch returns or throws, a section that is loading stops
\* loading, the fetch of a mounted Ignore Alert section ends, and a page with
\* as many sends under way as it can hold sees one of them end; a send ends
\* alone, with the toast of exactly one outcome: success, a failure response
\* or an exception; and what ends the fetch of Ignore Alert puts loading back
\* to false.
C25_DispatchEnds ==
    /\ ignoreAlert.loading ~> ~ignoreAlert.loading
    /\ (inflight["ignoreLive"] > 0) ~> (inflight["ignoreLive"] = 0)
    /\ (InFlightTotal = MaxInFlight) ~> (InFlightTotal < MaxInFlight)
    /\ [][/\ InFlightTotal' < InFlightTotal
             => /\ InFlightTotal' = InFlightTotal - 1
                /\ toast' \in {"Message sent!", "Unexpected error"} \cup FailureToasts
          /\ inflight'["ignoreLive"] < inflight["ignoreLive"] => ~ignoreAlert'.loading
          /\ ignoreAlert.loading => inflight["ignoreLive"] = 1]_vars

\* the Ignore Alert button is free again after its send ended in an exception
C25_Witness ==
    /\ Mounted("ignore")
    /\ ~ignoreAlert.loading
    /\ toast = "Unexpected error"
    /\ InFlightTotal = 0

====
